---- MODULE Spec2Model ----
(***************************************************************************)
(* Verification model of the truck-parking layout optimizer:               *)
(*   optimizer.py    optimize_layout, generate_candidates,                  *)
(*                   find_overlapping_pairs, solve_with_ortools,            *)
(*                   solve_greedy, validate_vehicle_mix                     *)
(*   lane_generator.py  generate_lanes and its helpers                      *)
(*   geometry.py     Rectangle, rectangle_in_polygon, rectangles_overlap    *)
(*   compliance.py   check_spacing, rectangles_overlap (axis-aligned)       *)
(*   models.py       ParkingSpace, Lane, Layout and their (de)serialisers   *)
(*                                                                         *)
(* Lengths are integers in units of the candidate grid step                 *)
(* (OptimizationConfig.grid_resolution = 0.5 m), so 1 m = UnitsPerMetre     *)
(* units and 1 m^2 = UnitsPerM2 square units.  Rotated footprints are kept  *)
(* in doubled coordinates (quarter metres) so that a rotation about the     *)
(* centre of a rectangle stays integral.  Lots are axis-aligned rectangles  *)
(* with the entry in the middle of the bottom edge and rotations are        *)
(* multiples of 90 degrees; within that domain the shapely operations used  *)
(* by the code have the closed forms given below.                           *)
(***************************************************************************)
EXTENDS Integers, Sequences, FiniteSets, TLC

VARIABLES
    pc,            \* position inside optimize_layout / solve_greedy / the JSON round trip
    args,          \* the arguments of the optimize_layout call
    ortools,       \* whether "from ortools.sat.python import cp_model" succeeds
    now,           \* last value read from time.time()
    start_time,    \* optimizer.py:478
    config,        \* OptimizationConfig built at optimizer.py:503-509 (and :568)
    lane_result,   \* LaneGenerationResult of generate_lanes
    candidates,    \* list of Candidate
    conflicts,     \* list of (i, j) index pairs, 0-based as in the code
    greedy,        \* locals of solve_greedy: sorted_indices, position, selected, excluded
    solver,        \* state of the CP-SAT run: incumbent, solution_count, native status
    solved,        \* (selected_indices, status) returned by the selection step
    result,        \* OptimizationResult returned by optimize_layout
    raised,        \* the exception that left optimize_layout, "" if none
    messages,      \* messages delivered to the progress callback, in order
    stages,        \* pipeline stages entered so far, in order (history)
    layout,        \* a Layout object (JSON round trip)
    json,          \* the parsed JSON document produced by Layout.to_json
    layout2,       \* the Layout rebuilt by Layout.from_json
    report,        \* the ComplianceReport returned by check_layout
    first,         \* what an earlier optimize_layout call with the same arguments did
    removal        \* the last Layout.remove_space call: its argument and what it returned

vars == <<pc, args, ortools, now, start_time, config, lane_result, candidates,
          conflicts, greedy, solver, solved, result, raised, messages, stages,
          layout, json, layout2, report, first, removal>>

(***************************************************************************)
(* Bounds of the model                                                     *)
(***************************************************************************)
MaxMixCount == 1        \* vehicle-mix bounds range over 0..MaxMixCount
MaxCandidates == 3      \* longest candidate list handed directly to solve_greedy
MaxClock == 1           \* latest value time.time() - start is allowed to reach
MaxSpaces == 2          \* most spaces in a layout that is serialised

(***************************************************************************)
(* Units                                                                   *)
(***************************************************************************)
UnitsPerMetre == 1 * 2                      \* 1 / grid_resolution
UnitsPerM2 == UnitsPerMetre * UnitsPerMetre

Max(a, b) == IF a >= b THEN a ELSE b
Min(a, b) == IF a <= b THEN a ELSE b

(***************************************************************************)
(* Python optionals and small helpers                                      *)
(***************************************************************************)
None == [some |-> FALSE, val |-> <<>>]
Some(v) == [some |-> TRUE, val |-> v]

Range(s) == {s[i] : i \in DOMAIN s}

RECURSIVE SumSeq(_)
SumSeq(s) == IF s = <<>> THEN 0 ELSE Head(s) + SumSeq(Tail(s))

\* The elements of a finite set as a sequence, in increasing order of Rank
\* (Rank is injective on the set).
OrderBy(S, Rank(_)) ==
    [i \in 1..Cardinality(S) |->
        CHOOSE e \in S : Cardinality({f \in S : Rank(f) < Rank(e)}) = i - 1]

(***************************************************************************)
(* config.py / data/vehicle_specs.json                                     *)
(*                                                                         *)
(* SPACE_TYPES is loaded from a data file.  The five type keys are the     *)
(* ones the code names; the footprints are model-scale values chosen so     *)
(* that a lot holds a handful of candidates on the 0.5 m grid.             *)
(***************************************************************************)
SpaceTypeKeys == <<"truck", "tractor", "trailer", "ev", "van">>

SPACE_TYPES ==
    [t \in Range(SpaceTypeKeys) |->
        CASE t = "truck"   -> [default_length |-> 34, default_width |-> 2]
          [] t = "ev"      -> [default_length |-> 34, default_width |-> 2]
          [] t = "van"     -> [default_length |-> 17, default_width |-> 34]
          [] t = "tractor" -> [default_length |-> 36, default_width |-> 2]
          [] t = "trailer" -> [default_length |-> 38, default_width |-> 2]]

TurningRadius == 12 * UnitsPerMetre          \* specs.get("turning_radius", 12.0)
MinVehicleSpacing == 1 * UnitsPerMetre      \* COMPLIANCE.get("min_vehicle_spacing", 1.0)
FireAccessMaxDistance == 10 * UnitsPerMetre \* COMPLIANCE.get("fire_access_max_distance", 10.0)

(***************************************************************************)
(* geometry.py                                                             *)
(***************************************************************************)
\* Rectangle.to_polygon for rotations that are multiples of 90 degrees, as
\* the axis-aligned box [x1, x2] x [y1, y2] in DOUBLED coordinates.  The
\* rotation is about the centre of the unrotated box.
ToPolygon(r) ==
    IF r.rotation % 180 = 0
    THEN [x1 |-> 2 * r.x, y1 |-> 2 * r.y,
          x2 |-> 2 * r.x + 2 * r.length, y2 |-> 2 * r.y + 2 * r.width]
    ELSE [x1 |-> 2 * r.x + r.length - r.width, y1 |-> 2 * r.y + r.width - r.length,
          x2 |-> 2 * r.x + r.length + r.width, y2 |-> 2 * r.y + r.width + r.length]

\* Rectangle.center, doubled.
Center2(r) == <<2 * r.x + r.length, 2 * r.y + r.width>>

\* rectangle_in_polygon(rect, zone): zone.buffer(-0.01).contains(rect).  A zone
\* is a box [x1, x2] x [y1, y2] in grid units; on the grid the 1 cm inward
\* buffer makes every inequality strict.
RectangleInPolygon(r, zone) ==
    LET p == ToPolygon(r) IN
    /\ p.x1 > 2 * zone.x1 /\ p.x2 < 2 * zone.x2
    /\ p.y1 > 2 * zone.y1 /\ p.y2 < 2 * zone.y2

\* Gap between two boxes along one axis (0 when the projections meet).
AxisGap(a1, a2, b1, b2) == Max(0, Max(a1 - b2, b1 - a2))

GeoRectanglesOverlap_Strict(r1, r2, min_gap) ==
    LET p == ToPolygon(r1)
        q == ToPolygon(r2)
        gx == AxisGap(p.x1, p.x2, q.x1, q.x2)
        gy == AxisGap(p.y1, p.y2, q.y1, q.y2)
    IN  IF min_gap > 0
        THEN gx * gx + gy * gy <= (2 * min_gap) * (2 * min_gap)
        ELSE /\ p.x1 < q.x2 /\ q.x1 < p.x2
             /\ p.y1 < q.y2 /\ q.y1 < p.y2

\* rectangles_overlap(r1, r2, min_gap) of geometry.py: each polygon buffered by
\* min_gap / 2, then intersects(); for boxes this is "distance <= min_gap",
\* and plain intersects() (touching included) when min_gap = 0.
GeoRectanglesOverlap(r1, r2, min_gap) ==
    LET p == ToPolygon(r1)
        q == ToPolygon(r2)
        gx == AxisGap(p.x1, p.x2, q.x1, q.x2)
        gy == AxisGap(p.y1, p.y2, q.y1, q.y2)
    IN  IF min_gap > 0
        THEN gx * gx + gy * gy <= (2 * min_gap) * (2 * min_gap)
        ELSE gx = 0 /\ gy = 0

\* point_to_line_distance(point, path) squared, for a vertical two-point path,
\* in doubled coordinates.
PointToLineDist2Sq(c, path) ==
    LET ax == 2 * path[1][1]
        ay == 2 * path[1][2]
        by == 2 * path[2][2]
        dx == IF c[1] >= ax THEN c[1] - ax ELSE ax - c[1]
        dy == Max(0, Max(Min(ay, by) - c[2], c[2] - Max(ay, by)))
    IN  dx * dx + dy * dy

\* boundary.exterior.distance(Point(c)) for a point inside the rectangular lot
\* [0, w] x [0, h], doubled.
BoundaryDist2(c, lot) ==
    Min(Min(c[1], 2 * lot.w - c[1]), Min(c[2], 2 * lot.h - c[2]))

(***************************************************************************)
(* lane_generator.py                                                       *)
(***************************************************************************)
\* LaneConfig.__post_init__ and LaneConfig.total_width
LaneConfig(lane_type) ==
    [lane_type |-> lane_type,
     width  |-> IF lane_type = "twoway" THEN 8 * UnitsPerMetre ELSE 6 * UnitsPerMetre,
     buffer |-> IF lane_type = "oneway" THEN 1 * UnitsPerMetre ELSE 2 * UnitsPerMetre]

TotalWidth(cfg) == cfg.width + cfg.buffer

\* The rectangular lot [0, w] x [0, h] of a four-point boundary
\* (0,0), (w,0), (w,h), (0,h): coords_to_polygon.
Lot(boundary_coords) == [w |-> boundary_coords[2][1], h |-> boundary_coords[3][2]]

PolygonArea(lot) == lot.w * lot.h

BoxArea(b) == (b.x2 - b.x1) * (b.y2 - b.y1)

\* validate_entry_exit_points.  The entry lies on the boundary, so it is not
\* snapped; a missing exit is derived by reflecting the entry through the
\* centroid (w/2, h/2), which for an entry on the bottom edge lands on the
\* top edge and needs no snapping either.
ValidateEntryExitPoints(lot, entry, exit_point) ==
    IF exit_point.some
    THEN [entry |-> entry, exit |-> exit_point.val, warnings |-> <<>>]
    ELSE [entry |-> entry,
          exit |-> <<lot.w - entry[1], lot.h - entry[2]>>,
          warnings |-> <<"Exit point auto-generated at opposite side">>]

\* generate_lane_path.  For a vertical entry-exit segment strictly between the
\* side edges, both the "inset too small" branch and the "direct segment stays
\* inside" branch return the direct path.
GenerateLanePath(lot, entry, exit_pt, cfg) == <<entry, exit_pt>>

\* line_to_lane_polygon(path, width) for a vertical path: the strip of the
\* given width around x = path[1][1] with flat end caps.
LineToLanePolygon(path, width) ==
    [x1 |-> path[1][1] - width \div 2, x2 |-> path[1][1] + width \div 2,
     y1 |-> Min(path[1][2], path[2][2]), y2 |-> Max(path[1][2], path[2][2])]

\* polygon_difference(boundary, lane) followed by get_multipolygon_parts: the
\* part of the lot left of the strip and the part right of it, when non-empty.
\* The order of the parts of a MultiPolygon is shapely's; `order` picks it.
ParkingParts(lot, lane, order) ==
    LET left  == [x1 |-> 0, y1 |-> 0, x2 |-> Min(lane.x1, lot.w), y2 |-> lot.h]
        right == [x1 |-> Max(lane.x2, 0), y1 |-> 0, x2 |-> lot.w, y2 |-> lot.h]
        l == IF left.x2 > left.x1 THEN <<left>> ELSE <<>>
        r == IF right.x2 > right.x1 THEN <<right>> ELSE <<>>
    IN  IF order = "lr" THEN l \o r ELSE r \o l

MinUsableArea == 30 * UnitsPerM2      \* min_usable_area
MinBoundaryArea == 50 * UnitsPerM2    \* boundary.area < 50

UsableParts_All(parts) == parts

\* "if part.area >= min_usable_area: result.parking_zones.append(part)"
UsableParts(parts) == SelectSeq(parts, LAMBDA p : BoxArea(p) >= MinUsableArea)

EmptyLaneResult ==
    [lanes |-> <<>>, parking_zones |-> <<>>, lane_polygons |-> <<>>,
     warnings |-> <<>>, success |-> TRUE, retried |-> FALSE]

TooSmall_Never(lot) == FALSE

\* "if boundary.is_empty or boundary.area < 50"
TooSmall(lot) == PolygonArea(lot) < MinBoundaryArea

\* generate_lanes.  `retried` is a history field: whether the fallback carve
\* with the nominal lane width ran.
GenerateLanes(boundary_coords, entry_point, exit_point, cfg, order) ==
    LET lot == Lot(boundary_coords) IN
    IF TooSmall(lot)
    THEN [EmptyLaneResult EXCEPT
            !.success = FALSE,
            !.warnings = <<"Boundary polygon is too small or invalid">>]
    ELSE
    LET v == ValidateEntryExitPoints(lot, entry_point, exit_point)
        path == GenerateLanePath(lot, v.entry, v.exit, cfg)
        lane_polygon == LineToLanePolygon(path, TotalWidth(cfg))
        clipped == [lane_polygon EXCEPT !.x1 = Max(@, 0), !.x2 = Min(@, lot.w)]
        lane == [id |-> "main", type |-> cfg.lane_type, width |-> cfg.width, path |-> path]
        zones1 == UsableParts(ParkingParts(lot, lane_polygon, order))
        small_lane == LineToLanePolygon(path, cfg.width)
        zones2 == UsableParts(ParkingParts(lot, small_lane, order))
    IN  [lanes |-> <<lane>>,
         parking_zones |-> IF zones1 = <<>> THEN zones2 ELSE zones1,
         lane_polygons |-> IF BoxArea(clipped) > 0 THEN <<clipped>> ELSE <<>>,
         warnings |-> v.warnings
                      \o (IF zones1 = <<>>
                          THEN <<"No usable parking zones after lane generation">>
                          ELSE <<>>)
                      \o <<"Area distribution">>,
         success |-> TRUE,
         retried |-> zones1 = <<>>]

(***************************************************************************)
(* optimizer.py: candidates and conflicts                                  *)
(***************************************************************************)
BaseAnnualCents == 243360       \* PRICING.get("annual", 2433.60), in cents

\* calculate_space_revenue(space_type) with occupancy 0.75, in cents; the
\* multipliers are the code's, in tenths.
CalculateSpaceRevenue(space_type) ==
    LET multiplier ==
            CASE space_type = "truck"   -> 10
              [] space_type = "tractor" -> 7
              [] space_type = "trailer" -> 6
              [] space_type = "ev"      -> 13
              [] space_type = "van"     -> 5
              [] OTHER                  -> 10
    IN  (BaseAnnualCents * multiplier * 75) \div 1000

\* A vehicle mix is a dict, kept as the list of its items in insertion order.
MixTypes(mix) == {mix[i].type : i \in DOMAIN mix}
MixOf(mix, t) == mix[CHOOSE i \in DOMAIN mix : mix[i].type = t]

\* Python truthiness of Optional[Dict]: None and {} are both falsy.
MixGiven(vehicle_mix) == vehicle_mix.some /\ vehicle_mix.val # <<>>

ConsideredTypes_All(cfg) == SpaceTypeKeys

\* optimizer.py:178-182
ConsideredTypes(cfg) ==
    IF MixGiven(cfg.vehicle_mix)
    THEN SelectSeq(SpaceTypeKeys, LAMBDA t : t \in MixTypes(cfg.vehicle_mix.val))
    ELSE SpaceTypeKeys

Accepts_BoundaryOnly(zone, x, y, space_type, rotation, lane_path, cfg, lot) ==
    LET specs == SPACE_TYPES[space_type]
        rect == [x |-> x, y |-> y, length |-> specs.default_length,
                 width |-> specs.default_width, rotation |-> rotation]
        c == Center2(rect)
        lane2 == PointToLineDist2Sq(c, lane_path)
        max_distance == TurningRadius + specs.default_length
        fire == cfg.fire_access_distance
    IN  /\ RectangleInPolygon(rect, zone)
        /\ lane2 <= (2 * max_distance) * (2 * max_distance)
        /\ BoundaryDist2(c, lot) <= 2 * fire

\* The three acceptance tests of generate_candidates for one placement.
Accepts(zone, x, y, space_type, rotation, lane_path, cfg, lot) ==
    LET specs == SPACE_TYPES[space_type]
        rect == [x |-> x, y |-> y, length |-> specs.default_length,
                 width |-> specs.default_width, rotation |-> rotation]
        c == Center2(rect)
        lane2 == PointToLineDist2Sq(c, lane_path)
        max_distance == TurningRadius + specs.default_length
        fire == cfg.fire_access_distance
    IN  /\ RectangleInPolygon(rect, zone)
        /\ lane2 <= (2 * max_distance) * (2 * max_distance)
        /\ \/ BoundaryDist2(c, lot) <= 2 * fire
           \/ lane2 <= (2 * fire) * (2 * fire)

\* generate_candidates: the nested loops visit (zone, x, y, type, rotation) in
\* lexicographic order and number the accepted placements from 1.
GenerateCandidates(parking_zones, lane_path, cfg, lot) ==
    LET types == ConsideredTypes(cfg)
        rots  == cfg.orientations
        placements ==
            UNION {
              { [zi |-> zi, x |-> x, y |-> y, ti |-> ti, ri |-> ri] :
                    x \in parking_zones[zi].x1 .. parking_zones[zi].x2,
                    y \in parking_zones[zi].y1 .. parking_zones[zi].y2,
                    ti \in DOMAIN types, ri \in DOMAIN rots }
              : zi \in DOMAIN parking_zones }
        accepted ==
            { p \in placements :
                Accepts(parking_zones[p.zi], p.x, p.y, types[p.ti], rots[p.ri],
                        lane_path, cfg, lot) }
        gw == 1 + Max(lot.w, lot.h)
        Rank(p) == ((((p.zi * gw) + p.x) * gw + p.y) * 8 + p.ti) * 8 + p.ri
        ordered == OrderBy(accepted, Rank)
    IN  [i \in DOMAIN ordered |->
            LET p == ordered[i]
                t == types[p.ti]
            IN  [id |-> i, type |-> t, x |-> p.x, y |-> p.y,
                 length |-> SPACE_TYPES[t].default_length,
                 width |-> SPACE_TYPES[t].default_width,
                 rotation |-> rots[p.ri],
                 revenue |-> CalculateSpaceRevenue(t)]]

\* Candidate.to_rectangle
ToRectangle(c) ==
    [x |-> c.x, y |-> c.y, length |-> c.length, width |-> c.width,
     rotation |-> c.rotation]

\* find_overlapping_pairs: the pairs (i, j), i < j, 0-based, in loop order.
FindOverlappingPairs(cands, min_spacing) ==
    LET n == Len(cands)
        pairs == { <<i, j>> \in (0 .. n - 1) \X (0 .. n - 1) :
                     /\ i < j
                     /\ GeoRectanglesOverlap(ToRectangle(cands[i + 1]),
                                             ToRectangle(cands[j + 1]), min_spacing) }
        Rank(p) == p[1] * (n + 1) + p[2]
    IN  OrderBy(pairs, Rank)

(***************************************************************************)
(* models.py: constructors                                                 *)
(***************************************************************************)
Today == "today"                 \* datetime.now().strftime("%Y-%m-%d")

DefaultBoundary ==
    << <<0, 0>>, <<27 * UnitsPerMetre, 0>>,
       <<74 * UnitsPerMetre, 145 * UnitsPerMetre>>, <<0, 145 * UnitsPerMetre>> >>

DefaultLotWidth == 74 * UnitsPerMetre
DefaultLotLength == 145 * UnitsPerMetre

LabelPrefix(type) ==
    CASE type = "truck"   -> "T"
      [] type = "tractor" -> "TR"
      [] type = "trailer" -> "TL"
      [] type = "ev"      -> "EV"
      [] type = "van"     -> "V"
      [] OTHER            -> "S"

\* f"{prefix_map.get(type, 'S')}-{id}"
MakeLabel(type, id) == LabelPrefix(type) \o "-" \o ToString(id)

\* ParkingSpace.__post_init__: an empty label is replaced by the generated one.
PostInitLabel(type, id, label) == IF label = "" THEN MakeLabel(type, id) ELSE label

\* ParkingSpace(id, type, x, y, length, width, rotation, label)
ParkingSpace(id, type, x, y, length, width, rotation, label) ==
    [id |-> id, type |-> type, x |-> x, y |-> y, length |-> length,
     width |-> width, rotation |-> rotation,
     label |-> PostInitLabel(type, id, label)]

\* Layout(...) with Layout.__post_init__: an empty `created` becomes today's
\* date and an empty boundary becomes the default boundary.
Layout(name, lot_width, lot_length, spaces, lanes, boundary, created, description) ==
    [name |-> name, lot_width |-> lot_width, lot_length |-> lot_length,
     spaces |-> spaces, lanes |-> lanes,
     boundary |-> IF boundary = <<>> THEN DefaultBoundary ELSE boundary,
     created |-> IF created = "" THEN Today ELSE created,
     description |-> description]

\* Candidate.to_parking_space
ToParkingSpace(c) ==
    ParkingSpace(c.id, c.type, c.x, c.y, c.length, c.width, c.rotation, "")

\* Layout.count_by_type, for one type
CountByType(spaces, t) == Cardinality({i \in DOMAIN spaces : spaces[i].type = t})

(***************************************************************************)
(* optimizer.py: validation and configuration                              *)
(***************************************************************************)
\* "if not boundary or len(boundary) < 3"
BoundaryInvalid(boundary) == ~boundary.some \/ Len(boundary.val) < 3

EntryInvalid_NoneOnly(entry_point) == ~entry_point.some

\* "if entry_point is None or len(entry_point) != 2"
EntryInvalid(entry_point) == ~entry_point.some \/ Len(entry_point.val) # 2

ItemErrors_NoOrder(item) ==
    IF item.type \notin Range(SpaceTypeKeys)
    THEN <<"Unknown vehicle type in mix">>
    ELSE IF item.min < 0 \/ item.max < 0
         THEN <<"Vehicle mix cannot be negative">> ELSE <<>>

\* The body of the loop of validate_vehicle_mix for one item of the mix.
ItemErrors(item) ==
    IF item.type \notin Range(SpaceTypeKeys)
    THEN <<"Unknown vehicle type in mix">>
    ELSE (IF item.min < 0 \/ item.max < 0
          THEN <<"Vehicle mix cannot be negative">> ELSE <<>>)
         \o (IF item.min > item.max
             THEN <<"Vehicle mix has min > max">> ELSE <<>>)

RECURSIVE MixErrors(_)
MixErrors(items) ==
    IF items = <<>> THEN <<>> ELSE ItemErrors(Head(items)) \o MixErrors(Tail(items))

\* validate_vehicle_mix
ValidateVehicleMix(vehicle_mix) ==
    IF ~MixGiven(vehicle_mix) THEN <<>> ELSE MixErrors(vehicle_mix.val)

\* goal_map.get(optimization_goal, MAXIMIZE_REVENUE)
GoalOf(optimization_goal) ==
    IF optimization_goal \in {"maximize_revenue", "maximize_count", "maximize_trucks"}
    THEN optimization_goal
    ELSE "maximize_revenue"

\* sorted(set(float(o) for o in orientations))
SortedSet(s) == OrderBy(Range(s), LAMBDA o : o)

\* OptimizationConfig(time_limit, goal, vehicle_mix) and lines 508-509
MakeConfig_Listening(a) ==
    [time_limit |-> a.time_limit,
     grid_resolution |-> 1,
     orientations |-> IF a.callback THEN <<0>>
                      ELSE IF a.orientations.some /\ a.orientations.val # <<>>
                      THEN SortedSet(a.orientations.val)
                      ELSE <<0, 90>>,
     goal |-> GoalOf(a.optimization_goal),
     vehicle_mix |-> a.vehicle_mix,
     min_spacing |-> MinVehicleSpacing,
     fire_access_distance |-> FireAccessMaxDistance]

MakeConfig(a) ==
    [time_limit |-> a.time_limit,
     grid_resolution |-> 1,
     orientations |-> IF a.orientations.some /\ a.orientations.val # <<>>
                      THEN SortedSet(a.orientations.val)
                      ELSE <<0, 90>>,
     goal |-> GoalOf(a.optimization_goal),
     vehicle_mix |-> a.vehicle_mix,
     min_spacing |-> MinVehicleSpacing,
     fire_access_distance |-> FireAccessMaxDistance]

NoStats ==
    [populated |-> FALSE, total_candidates |-> 0, total_conflicts |-> 0,
     selected_spaces |-> 0, total_revenue |-> 0]

\* OptimizationResult(layout, stats, status, warnings, solve_time)
OptimizationResult(lay, stats, status, warnings, solve_time) ==
    [layout |-> lay, stats |-> stats, status |-> status,
     warnings |-> warnings, solve_time |-> solve_time]

NoResult ==
    OptimizationResult(Layout("", 0, 0, <<>>, <<>>, <<>>, "", ""), NoStats, "", <<>>, 0)

\* lines 512-517: the bounding box of the boundary polygon
LotWidth(a) == Lot(a.boundary.val).w
LotLength(a) == Lot(a.boundary.val).h

Notify_Front(msgs, a, msg) == IF a.callback THEN <<msg>> \o msgs ELSE msgs

\* "if callback: callback(msg)"
Notify(msgs, a, msg) == IF a.callback THEN Append(msgs, msg) ELSE msgs

Msg(kind, n) == [kind |-> kind, n |-> n]

(***************************************************************************)
(* optimizer.py: selection                                                 *)
(***************************************************************************)
Indices(cands) == 0 .. Len(cands) - 1

\* A set of indices as the ascending list the code builds at line 373.
Ascending(S) == OrderBy(S, LAMBDA i : i)

CountOfType(sel, cands, t) ==
    Cardinality({k \in DOMAIN sel : cands[sel[k] + 1].type = t})

\* ---- solve_with_ortools: the CP-SAT model built at lines 299-334 ----

\* type_vars of line 313
TypeVars(cands, t) == {i \in Indices(cands) : cands[i + 1].type = t}

EarlyInfeasible_Never(cands, cfg) == FALSE

\* line 314: a required type without candidates ends the call at once
EarlyInfeasible(cands, cfg) ==
    /\ MixGiven(cfg.vehicle_mix)
    /\ \E k \in DOMAIN cfg.vehicle_mix.val :
          /\ cfg.vehicle_mix.val[k].min > 0
          /\ TypeVars(cands, cfg.vehicle_mix.val[k].type) = {}

\* lines 307-308: selected[i] + selected[j] <= 1 for every conflict
ConflictConstraints(S, confl) ==
    \A k \in DOMAIN confl : ~(confl[k][1] \in S /\ confl[k][2] \in S)

MixConstraints_NoMin(S, cands, cfg) ==
    \/ ~MixGiven(cfg.vehicle_mix)
    \/ \A k \in DOMAIN cfg.vehicle_mix.val :
          LET item == cfg.vehicle_mix.val[k]
              tv == TypeVars(cands, item.type)
          IN  tv # {} => Cardinality(S \cap tv) <= item.max

\* lines 311-320: sum(type_vars) >= min_count (when min_count > 0) and
\* sum(type_vars) <= max_count, for the types that have candidates
MixConstraints(S, cands, cfg) ==
    \/ ~MixGiven(cfg.vehicle_mix)
    \/ \A k \in DOMAIN cfg.vehicle_mix.val :
          LET item == cfg.vehicle_mix.val[k]
              tv == TypeVars(cands, item.type)
              n == Cardinality(S \cap tv)
          IN  tv # {} => /\ (item.min > 0 => n >= item.min)
                         /\ n <= item.max

\* The assignments that satisfy every constraint added to the model.
Feasible(S, cands, confl, cfg) ==
    ConflictConstraints(S, confl) /\ MixConstraints(S, cands, cfg)

TruckWeight(t) ==
    CASE t = "truck" -> 10 [] t = "ev" -> 9 [] t = "tractor" -> 5
      [] t = "trailer" -> 4 [] t = "van" -> 2 [] OTHER -> 1

\* lines 323-334: the objective; int(c.revenue * 100) is the revenue in cents
Objective(S, cands, cfg) ==
    LET sel == Ascending(S) IN
    CASE cfg.goal = "maximize_revenue" ->
            SumSeq([k \in DOMAIN sel |-> cands[sel[k] + 1].revenue])
      [] cfg.goal = "maximize_count" -> Cardinality(S)
      [] cfg.goal = "maximize_trucks" ->
            SumSeq([k \in DOMAIN sel |-> TruckWeight(cands[sel[k] + 1].type)])

FeasibleSets(cands, confl, cfg) ==
    {S \in SUBSET Indices(cands) : Feasible(S, cands, confl, cfg)}

StatusMap_Swapped(native) ==
    CASE native = "OPTIMAL" -> "optimal"
      [] native = "FEASIBLE" -> "timeout"
      [] native = "INFEASIBLE" -> "infeasible"
      [] native = "MODEL_INVALID" -> "invalid"
      [] native = "UNKNOWN" -> "feasible"
      [] OTHER -> "unknown"

\* status_map.get(status, "unknown"), lines 362-370
StatusMap(native) ==
    CASE native = "OPTIMAL" -> "optimal"
      [] native = "FEASIBLE" -> "feasible"
      [] native = "INFEASIBLE" -> "infeasible"
      [] native = "MODEL_INVALID" -> "invalid"
      [] native = "UNKNOWN" -> "timeout"
      [] OTHER -> "unknown"

\* lines 372-376: the selection is read back only for OPTIMAL and FEASIBLE
Extract(native, incumbent) ==
    IF native \in {"OPTIMAL", "FEASIBLE"}
    THEN [selected |-> incumbent, status |-> StatusMap(native)]
    ELSE [selected |-> <<>>, status |-> StatusMap(native)]

\* ---- solve_greedy ----

Neighbours_OneWay(i, confl) ==
    {confl[k][2] : k \in {k \in DOMAIN confl : confl[k][1] = i}}

\* conflict_map.get(i, []), lines 398-401
Neighbours(i, confl) ==
    {confl[k][2] : k \in {k \in DOMAIN confl : confl[k][1] = i}}
    \cup {confl[k][1] : k \in {k \in DOMAIN confl : confl[k][2] = i}}

TypePriority(t) ==
    CASE t = "truck" -> 0 [] t = "ev" -> 1 [] t = "tractor" -> 2
      [] t = "trailer" -> 3 [] t = "van" -> 4 [] OTHER -> 5

RevenueCap == 10 * BaseAnnualCents   \* above every revenue, to order by -revenue

\* lines 404-411: sorted() is stable, so ties keep generation order
SortedIndices(cands, cfg) ==
    LET n == Len(cands)
        Key(i) ==
            CASE cfg.goal = "maximize_revenue" -> RevenueCap - cands[i + 1].revenue
              [] cfg.goal = "maximize_trucks" ->
                    TypePriority(cands[i + 1].type) * RevenueCap
                    + (RevenueCap - cands[i + 1].revenue)
              [] OTHER -> 0
    IN  OrderBy(Indices(cands), LAMBDA i : Key(i) * (n + 1) + i)

AtMax_Off(i, sel, cands, cfg) == FALSE

AtMax_Early(i, sel, cands, cfg) ==
    /\ MixGiven(cfg.vehicle_mix)
    /\ cands[i + 1].type \in MixTypes(cfg.vehicle_mix.val)
    /\ CountOfType(sel, cands, cands[i + 1].type) + 1
          >= MixOf(cfg.vehicle_mix.val, cands[i + 1].type).max

\* lines 422-428: the type of candidate i has reached its max_count
AtMax(i, sel, cands, cfg) ==
    /\ MixGiven(cfg.vehicle_mix)
    /\ cands[i + 1].type \in MixTypes(cfg.vehicle_mix.val)
    /\ CountOfType(sel, cands, cands[i + 1].type)
          >= MixOf(cfg.vehicle_mix.val, cands[i + 1].type).max

MinViolated_Off(sel, cands, cfg) == FALSE

\* lines 437-443: some type of the mix has fewer selected than min_count
MinViolated(sel, cands, cfg) ==
    /\ MixGiven(cfg.vehicle_mix)
    /\ \E k \in DOMAIN cfg.vehicle_mix.val :
          CountOfType(sel, cands, cfg.vehicle_mix.val[k].type)
             < cfg.vehicle_mix.val[k].min

NoGreedy == [sorted_indices |-> <<>>, pos |-> 0, selected |-> <<>>, excluded |-> {}]
NoSolver == [incumbent |-> <<>>, solution_count |-> 0, native |-> ""]
NoSolved == [selected |-> <<>>, status |-> ""]

(***************************************************************************)
(* The calls of optimize_layout that are explored                          *)
(***************************************************************************)
Rect(w, h) == << <<0, 0>>, <<w, 0>>, <<w, h>>, <<0, h>> >>

TinyLot   == Rect(5 * UnitsPerMetre, 5 * UnitsPerMetre)      \* area 25 m^2
NarrowLot == Rect(5 * UnitsPerMetre, 12 * UnitsPerMetre)     \* no room beside the lane
SlimLot   == Rect(8 * UnitsPerMetre, 30 * UnitsPerMetre)     \* zones only with the nominal lane
WideLot   == Rect(26 * UnitsPerMetre, 18 * UnitsPerMetre)    \* one rotated truck per side

Lots == {TinyLot, NarrowLot, SlimLot, WideLot}

BadBoundaries == {None, Some(<<>>), Some(<< <<0, 0>>, <<10, 0>> >>)}

\* The entry in the middle of the bottom edge, the exit in the middle of the top.
EntryOf(b) == <<b[2][1] \div 2, 0>>
ExitOf(b) == <<b[2][1] \div 2, b[3][2]>>

BadEntries == {None, Some(<<5>>)}

Item(t, lo, hi) == [type |-> t, min |-> lo, max |-> hi]

SingleMixes ==
    { <<Item(t, lo, hi)>> : t \in {"truck", "ev", "van"},
                            lo \in 0 .. MaxMixCount, hi \in 0 .. MaxMixCount + 1 }

ValidMixes ==
    {None, Some(<<>>)}
    \cup {Some(m) : m \in {m \in SingleMixes : m[1].min <= m[1].max}}
    \cup {Some(<<Item("truck", 1, 1), Item("ev", 1, 2)>>),
          Some(<<Item("van", 0, 1), Item("truck", 1, 2)>>),
          Some(<<Item("tractor", 0, 1)>>),
          Some(<<Item("truck", 0, 2), Item("tractor", 1, 1)>>),
          Some(<<Item("truck", 1, 1), Item("ev", 1, 1), Item("van", 1, 1)>>)}

InvalidMixes ==
    {Some(<<Item("bus", 1, 2)>>),
     Some(<<Item("truck", 0 - 1, 1)>>),
     Some(<<Item("truck", 0, 1), Item("ev", 2, 1)>>)}

Goals == {"maximize_revenue", "maximize_count", "maximize_trucks"}

DefaultCall(b) ==
    [boundary |-> Some(b), entry_point |-> Some(EntryOf(b)),
     exit_point |-> Some(ExitOf(b)), vehicle_mix |-> None,
     optimization_goal |-> "maximize_revenue", time_limit |-> 30,
     lane_type |-> "oneway", orientations |-> None,
     layout_name |-> "Optimized Layout", callback |-> FALSE]

\* Calls that exercise the argument checks.
ValidationCalls ==
    { [DefaultCall(WideLot) EXCEPT !.boundary = b, !.entry_point = e,
                                   !.vehicle_mix = m, !.callback = cb] :
        b \in BadBoundaries \cup {Some(WideLot)},
        e \in BadEntries \cup {Some(EntryOf(WideLot))},
        m \in {None} \cup InvalidMixes,
        cb \in BOOLEAN }

\* Calls that exercise lane carving on every lot.
LaneCallsOn(b) ==
    { [DefaultCall(b) EXCEPT !.exit_point = x, !.lane_type = lt, !.callback = cb,
                             !.optimization_goal = "fastest"] :
        x \in {None, Some(ExitOf(b))},
        lt \in {"oneway", "twoway"}, cb \in BOOLEAN }

LaneCalls == UNION {LaneCallsOn(b) : b \in Lots}

\* Calls that exercise candidate generation and selection on the wide lot.
SolveCalls ==
    { [DefaultCall(WideLot) EXCEPT !.vehicle_mix = m, !.optimization_goal = g] :
        m \in ValidMixes, g \in Goals }

\* Calls that restrict the orientations and listen to the progress messages.
OrientationCalls ==
    { [DefaultCall(WideLot) EXCEPT !.orientations = o, !.callback = cb] :
        o \in {None, Some(<<90>>), Some(<<90, 0, 90>>)}, cb \in BOOLEAN }

\* Calls with a tight time limit.
TimedCalls ==
    { [DefaultCall(WideLot) EXCEPT !.time_limit = tl] : tl \in {0, MaxClock + 1} }

Calls ==
    ValidationCalls \cup LaneCalls \cup SolveCalls \cup OrientationCalls \cup TimedCalls

(***************************************************************************)
(* optimize_layout, step by step                                           *)
(***************************************************************************)
Idle ==
    /\ ortools = "untried"
    /\ now = 0 /\ start_time = 0
    /\ config = MakeConfig(DefaultCall(WideLot))
    /\ lane_result = EmptyLaneResult
    /\ candidates = <<>> /\ conflicts = <<>>
    /\ greedy = NoGreedy /\ solver = NoSolver /\ solved = NoSolved
    /\ result = NoResult /\ raised = ""
    /\ messages = <<>> /\ stages = <<>>

NoJson == [name |-> "", created |-> "", description |-> "",
           lot |-> [width |-> 0, length |-> 0, boundary |-> <<>>],
           spaces |-> <<>>, lanes |-> <<>>]

NoReport == [is_valid |-> TRUE, violations |-> <<>>, warnings |-> 0, errors |-> 0]

\* No remove_space call yet.
NoRemoval == [called |-> FALSE, space_id |-> 0, returned |-> FALSE]

\* No earlier call to compare with.
NoFirst ==
    [called |-> FALSE, raised |-> "", status |-> "", spaces |-> <<>>, stages |-> <<>>,
     ortools |-> "untried", lane_result |-> EmptyLaneResult, solver |-> NoSolver]

JsonIdle ==
    /\ layout = NoResult.layout /\ json = NoJson /\ layout2 = NoResult.layout
    /\ report = NoReport
    /\ first = NoFirst
    /\ removal = NoRemoval

Init ==
    /\ pc = "call"
    /\ args \in Calls
    /\ Idle
    /\ JsonIdle

\* time.time(): the clock never runs backwards
Clock == now .. MaxClock

\* lines 480-481
RaiseBoundary ==
    /\ pc = "call"
    /\ BoundaryInvalid(args.boundary)
    /\ raised' = "ValueError: Boundary must contain at least 3 coordinate points"
    /\ pc' = "raised"
    /\ UNCHANGED <<removal, first, report, args, ortools, now, start_time, config, lane_result, candidates,
                   conflicts, greedy, solver, solved, result, messages, stages,
                   layout, json, layout2>>

\* lines 482-483
RaiseEntry ==
    /\ pc = "call"
    /\ ~BoundaryInvalid(args.boundary)
    /\ EntryInvalid(args.entry_point)
    /\ raised' = "ValueError: Entry point must be a valid (x, y) tuple"
    /\ pc' = "raised"
    /\ UNCHANGED <<removal, first, report, args, ortools, now, start_time, config, lane_result, candidates,
                   conflicts, greedy, solver, solved, result, messages, stages,
                   layout, json, layout2>>

\* lines 485-492
RejectMix ==
    /\ pc = "call"
    /\ ~BoundaryInvalid(args.boundary)
    /\ ~EntryInvalid(args.entry_point)
    /\ ValidateVehicleMix(args.vehicle_mix) # <<>>
    /\ result' = OptimizationResult(
                    Layout(args.layout_name, DefaultLotWidth, DefaultLotLength,
                           <<>>, <<>>, <<>>, "", ""),
                    NoStats, "invalid", ValidateVehicleMix(args.vehicle_mix), 0)
    /\ pc' = "done"
    /\ UNCHANGED <<removal, first, report, args, ortools, now, start_time, config, lane_result, candidates,
                   conflicts, greedy, solver, solved, raised, messages, stages,
                   layout, json, layout2>>

\* lines 494-517
Configure ==
    /\ pc = "call"
    /\ ~BoundaryInvalid(args.boundary)
    /\ ~EntryInvalid(args.entry_point)
    /\ ValidateVehicleMix(args.vehicle_mix) = <<>>
    /\ config' = MakeConfig(args)
    /\ pc' = "lanes"
    /\ UNCHANGED <<removal, first, report, args, ortools, now, start_time, lane_result, candidates,
                   conflicts, greedy, solver, solved, result, raised, messages,
                   stages, layout, json, layout2>>

\* lines 519-524
CarveLanes ==
    /\ pc = "lanes"
    /\ messages' = Notify(messages, args, Msg("Generating access lanes...", 0))
    /\ stages' = Append(stages, "lanes")
    /\ \E order \in {"lr", "rl"} :
          lane_result' = GenerateLanes(args.boundary.val, args.entry_point.val,
                                       args.exit_point, LaneConfig(args.lane_type),
                                       order)
    /\ pc' = "lanes_done"
    /\ UNCHANGED <<removal, first, report, args, ortools, now, start_time, config, candidates, conflicts,
                   greedy, solver, solved, result, raised, layout, json, layout2>>

\* "if not lane_result.success or not lane_result.parking_zones"
LaneFailure(lr) == ~lr.success \/ lr.parking_zones = <<>>

\* lines 526-532
ReturnLaneFailure ==
    /\ pc = "lanes_done"
    /\ LaneFailure(lane_result)
    /\ \E t \in Clock :
          /\ now' = t
          /\ result' = OptimizationResult(
                          Layout(args.layout_name, LotWidth(args), LotLength(args),
                                 <<>>, <<>>, <<>>, "", ""),
                          NoStats, "infeasible",
                          <<"Failed to generate lanes">> \o lane_result.warnings,
                          t - start_time)
    /\ pc' = "done"
    /\ UNCHANGED <<removal, first, report, args, ortools, start_time, config, lane_result, candidates,
                   conflicts, greedy, solver, solved, raised, messages, stages,
                   layout, json, layout2>>

\* line 535
LanePath(lr, a) ==
    IF lr.lanes # <<>> THEN lr.lanes[1].path
    ELSE << <<0, 0>>, <<LotWidth(a), LotLength(a)>> >>

\* lines 534-546
GenerateCandidatesStep ==
    /\ pc = "lanes_done"
    /\ ~LaneFailure(lane_result)
    /\ messages' = Notify(messages, args, Msg("Generating candidate placements...", 0))
    /\ stages' = Append(stages, "candidates")
    /\ candidates' = GenerateCandidates(lane_result.parking_zones,
                                        LanePath(lane_result, args), config,
                                        Lot(args.boundary.val))
    /\ pc' = "candidates_done"
    /\ UNCHANGED <<removal, first, report, args, ortools, now, start_time, config, lane_result, conflicts,
                   greedy, solver, solved, result, raised, layout, json, layout2>>

\* lines 548-555
ReturnNoCandidates ==
    /\ pc = "candidates_done"
    /\ candidates = <<>>
    /\ \E t \in Clock :
          /\ now' = t
          /\ result' = OptimizationResult(
                          Layout(args.layout_name, LotWidth(args), LotLength(args),
                                 <<>>, lane_result.lanes, args.boundary.val, "", ""),
                          NoStats, "infeasible",
                          <<"No valid candidate placements found">>,
                          t - start_time)
    /\ pc' = "done"
    /\ UNCHANGED <<removal, first, report, args, ortools, start_time, config, lane_result, candidates,
                   conflicts, greedy, solver, solved, raised, messages, stages,
                   layout, json, layout2>>

RemainingTime_Raw(time_limit, elapsed) == time_limit - elapsed

\* "max(1.0, time_limit - (time.time() - start_time))", line 567
RemainingTime(time_limit, elapsed) == Max(1, time_limit - elapsed)

\* lines 557-568
FindConflicts ==
    /\ pc = "candidates_done"
    /\ candidates # <<>>
    /\ stages' = Append(stages, "conflicts")
    /\ conflicts' = FindOverlappingPairs(candidates, config.min_spacing)
    /\ messages' = Notify(Notify(messages, args, Msg("Generated candidates", Len(candidates))),
                          args, Msg("Found conflicts", Len(conflicts')))
    /\ \E t \in Clock :
          /\ now' = t
          /\ config' = [config EXCEPT !.time_limit =
                            RemainingTime(args.time_limit, t - start_time)]
    /\ pc' = "solve"
    /\ UNCHANGED <<removal, first, report, args, ortools, start_time, lane_result, candidates, greedy,
                   solver, solved, result, raised, layout, json, layout2>>

(***************************************************************************)
(* solve_with_ortools                                                      *)
(***************************************************************************)
ImportFails_IntoSolver ==
    /\ pc = "solve"
    /\ ortools' = "missing"
    /\ stages' = Append(stages, "solve")
    /\ pc' = "search"
    /\ UNCHANGED <<removal, first, report, args, now, start_time, config, lane_result, candidates, conflicts,
                   greedy, solver, solved, result, raised, messages, layout, json,
                   layout2>>

\* lines 293-297: the import fails and the call is handed to solve_greedy
ImportFails ==
    /\ pc = "solve"
    /\ ortools' = "missing"
    /\ stages' = Append(stages, "solve")
    /\ pc' = "greedy"
    /\ UNCHANGED <<removal, first, report, args, now, start_time, config, lane_result, candidates, conflicts,
                   greedy, solver, solved, result, raised, messages, layout, json,
                   layout2>>

\* lines 310-315: a required type has no candidate
OrtoolsEarlyInfeasible ==
    /\ pc = "solve"
    /\ ortools' = "available"
    /\ EarlyInfeasible(candidates, config)
    /\ stages' = Append(stages, "solve")
    /\ solved' = [selected |-> <<>>, status |-> "infeasible"]
    /\ pc' = "solved"
    /\ UNCHANGED <<removal, first, report, args, now, start_time, config, lane_result, candidates, conflicts,
                   greedy, solver, result, raised, messages, layout, json, layout2>>

\* lines 299-359: the model is built and solver.Solve is entered
OrtoolsSolve ==
    /\ pc = "solve"
    /\ ortools' = "available"
    /\ ~EarlyInfeasible(candidates, config)
    /\ stages' = Append(stages, "solve")
    /\ solver' = NoSolver
    /\ pc' = "search"
    /\ UNCHANGED <<removal, first, report, args, now, start_time, config, lane_result, candidates, conflicts,
                   greedy, solved, result, raised, messages, layout, json, layout2>>

\* CP-SAT finds a solution better than every one before it and reports it to
\* SolutionCallback.on_solution_callback (lines 348-352).
SolverIncumbent ==
    /\ pc = "search"
    /\ \E S \in FeasibleSets(candidates, conflicts, config) :
          /\ \/ solver.solution_count = 0
             \/ Objective(S, candidates, config)
                  > Objective(Range(solver.incumbent), candidates, config)
          /\ solver' = [solver EXCEPT !.incumbent = Ascending(S),
                                      !.solution_count = @ + 1]
          /\ messages' = Notify(messages, args,
                                Msg("Found solution", solver.solution_count + 1))
    /\ UNCHANGED <<removal, first, report, pc, args, ortools, now, start_time, config, lane_result,
                   candidates, conflicts, greedy, solved, result, raised, stages,
                   layout, json, layout2>>

\* CP-SAT proves the incumbent optimal.
SolverOptimal ==
    /\ pc = "search"
    /\ solver.solution_count > 0
    /\ \A S \in FeasibleSets(candidates, conflicts, config) :
          Objective(S, candidates, config)
             <= Objective(Range(solver.incumbent), candidates, config)
    /\ solver' = [solver EXCEPT !.native = "OPTIMAL"]
    /\ pc' = "extract"
    /\ UNCHANGED <<removal, first, report, args, ortools, now, start_time, config, lane_result, candidates,
                   conflicts, greedy, solved, result, raised, messages, stages,
                   layout, json, layout2>>

\* CP-SAT proves that no assignment satisfies the constraints.
SolverInfeasible ==
    /\ pc = "search"
    /\ FeasibleSets(candidates, conflicts, config) = {}
    /\ solver' = [solver EXCEPT !.native = "INFEASIBLE"]
    /\ pc' = "extract"
    /\ UNCHANGED <<removal, first, report, args, ortools, now, start_time, config, lane_result, candidates,
                   conflicts, greedy, solved, result, raised, messages, stages,
                   layout, json, layout2>>

\* max_time_in_seconds runs out: FEASIBLE with an incumbent, UNKNOWN without.
SolverTimeLimit ==
    /\ pc = "search"
    /\ solver' = [solver EXCEPT !.native =
                     IF solver.solution_count > 0 THEN "FEASIBLE" ELSE "UNKNOWN"]
    /\ pc' = "extract"
    /\ UNCHANGED <<removal, first, report, args, ortools, now, start_time, config, lane_result, candidates,
                   conflicts, greedy, solved, result, raised, messages, stages,
                   layout, json, layout2>>

\* CP-SAT rejects the model before searching.
SolverModelInvalid ==
    /\ pc = "search"
    /\ solver.solution_count = 0
    /\ solver' = [solver EXCEPT !.native = "MODEL_INVALID"]
    /\ pc' = "extract"
    /\ UNCHANGED <<removal, first, report, args, ortools, now, start_time, config, lane_result, candidates,
                   conflicts, greedy, solved, result, raised, messages, stages,
                   layout, json, layout2>>

\* lines 361-376
OrtoolsExtract ==
    /\ pc = "extract"
    /\ solved' = Extract(solver.native, solver.incumbent)
    /\ pc' = "solved"
    /\ UNCHANGED <<removal, first, report, args, ortools, now, start_time, config, lane_result, candidates,
                   conflicts, greedy, solver, result, raised, messages, stages,
                   layout, json, layout2>>

(***************************************************************************)
(* solve_greedy                                                            *)
(***************************************************************************)
\* lines 397-415
GreedyStart ==
    /\ pc = "greedy"
    /\ greedy' = [sorted_indices |-> SortedIndices(candidates, config),
                  pos |-> 1, selected |-> <<>>, excluded |-> {}]
    /\ pc' = "greedy_loop"
    /\ UNCHANGED <<removal, first, report, args, ortools, now, start_time, config, lane_result, candidates,
                   conflicts, solver, solved, result, raised, messages, stages,
                   layout, json, layout2>>

\* One iteration of the loop at lines 417-434.
GreedyVisit ==
    /\ pc = "greedy_loop"
    /\ greedy.pos <= Len(greedy.sorted_indices)
    /\ LET i == greedy.sorted_indices[greedy.pos] IN
       greedy' =
          IF i \in greedy.excluded \/ AtMax(i, greedy.selected, candidates, config)
          THEN [greedy EXCEPT !.pos = @ + 1]
          ELSE [greedy EXCEPT !.pos = @ + 1,
                              !.selected = Append(@, i),
                              !.excluded = @ \cup Neighbours(i, conflicts)]
    /\ UNCHANGED <<removal, first, report, pc, args, ortools, now, start_time, config, lane_result,
                   candidates, conflicts, solver, solved, result, raised, messages,
                   stages, layout, json, layout2>>

GreedyReturn_KeepSelection ==
    /\ pc = "greedy_loop"
    /\ greedy.pos > Len(greedy.sorted_indices)
    /\ solved' = [selected |-> greedy.selected,
                  status |-> IF MinViolated(greedy.selected, candidates, config)
                             THEN "infeasible" ELSE "feasible"]
    /\ pc' = "solved"
    /\ UNCHANGED <<removal, first, report, args, ortools, now, start_time, config, lane_result, candidates,
                   conflicts, greedy, solver, result, raised, messages, stages,
                   layout, json, layout2>>

\* lines 436-445
GreedyReturn ==
    /\ pc = "greedy_loop"
    /\ greedy.pos > Len(greedy.sorted_indices)
    /\ solved' = IF MinViolated(greedy.selected, candidates, config)
                 THEN [selected |-> <<>>, status |-> "infeasible"]
                 ELSE [selected |-> greedy.selected, status |-> "feasible"]
    /\ pc' = "solved"
    /\ UNCHANGED <<removal, first, report, args, ortools, now, start_time, config, lane_result, candidates,
                   conflicts, greedy, solver, result, raised, messages, stages,
                   layout, json, layout2>>

(***************************************************************************)
(* optimize_layout: the result                                             *)
(***************************************************************************)
SelectedSpaces_KeepIds(sel, cands) ==
    [k \in DOMAIN sel |-> ToParkingSpace(cands[sel[k] + 1])]

\* lines 581-593: the selected candidates as spaces, renumbered from 1
SelectedSpaces(sel, cands) ==
    [k \in DOMAIN sel |->
        LET space == ToParkingSpace(cands[sel[k] + 1]) IN
        [space EXCEPT !.id = k, !.label = MakeLabel(space.type, k)]]

\* lines 596-604
Stats(sel, cands, confl) ==
    [populated |-> TRUE,
     total_candidates |-> Len(cands),
     total_conflicts |-> Len(confl),
     selected_spaces |-> Len(sel),
     total_revenue |-> SumSeq([k \in DOMAIN sel |-> cands[sel[k] + 1].revenue])]

\* lines 572-614
BuildResult ==
    /\ pc = "solved"
    /\ \E t \in Clock :
          /\ now' = t
          /\ result' = OptimizationResult(
                          Layout(args.layout_name, LotWidth(args), LotLength(args),
                                 SelectedSpaces(solved.selected, candidates),
                                 lane_result.lanes, args.boundary.val, "", ""),
                          Stats(solved.selected, candidates, conflicts),
                          solved.status, lane_result.warnings, t - start_time)
    /\ pc' = "done"
    /\ UNCHANGED <<removal, first, report, args, ortools, start_time, config, lane_result, candidates,
                   conflicts, greedy, solver, solved, raised, messages, stages,
                   layout, json, layout2>>

Next ==
    \/ RaiseBoundary \/ RaiseEntry \/ RejectMix \/ Configure
    \/ CarveLanes \/ ReturnLaneFailure
    \/ GenerateCandidatesStep \/ ReturnNoCandidates \/ FindConflicts
    \/ ImportFails \/ OrtoolsEarlyInfeasible \/ OrtoolsSolve
    \/ SolverIncumbent \/ SolverOptimal \/ SolverInfeasible
    \/ SolverTimeLimit \/ SolverModelInvalid \/ OrtoolsExtract
    \/ GreedyStart \/ GreedyVisit \/ GreedyReturn
    \/ BuildResult

Spec == Init /\ [][Next]_vars

(***************************************************************************)
(* compliance.py: the spacing check                                        *)
(***************************************************************************)
\* compliance.rectangles_overlap: the boxes (x, y, length, width) as stored;
\* the rotation of the spaces is not read.
ComplianceRectanglesOverlap(r1, r2, min_gap) ==
    LET r1_left   == r1.x - min_gap
        r1_right  == r1.x + r1.length + min_gap
        r1_bottom == r1.y - min_gap
        r1_top    == r1.y + r1.width + min_gap
        r2_left   == r2.x
        r2_right  == r2.x + r2.length
        r2_bottom == r2.y
        r2_top    == r2.y + r2.width
    IN  /\ ~(r1_right <= r2_left \/ r2_right <= r1_left)
        /\ ~(r1_top <= r2_bottom \/ r2_top <= r1_bottom)

\* The pairs (i, j), i < j, of the double loop of check_spacing, in loop order.
SpacePairs(spaces) ==
    LET n == Len(spaces)
        Rank(p) == p[1] * (n + 1) + p[2]
    IN  OrderBy({p \in (1 .. n) \X (1 .. n) : p[1] < p[2]}, Rank)

RECURSIVE CheckPairs(_, _, _, _)
CheckPairs(spaces, pairs, k, checked_pairs) ==
    IF k > Len(pairs) THEN <<>>
    ELSE
    LET space1 == spaces[pairs[k][1]]
        space2 == spaces[pairs[k][2]]
        pair_key == <<Min(space1.id, space2.id), Max(space1.id, space2.id)>>
        Violation(severity) ==
            [severity |-> severity, category |-> "spacing",
             space_ids |-> <<space1.id, space2.id>>]
    IN  IF pair_key \in checked_pairs
        THEN CheckPairs(spaces, pairs, k + 1, checked_pairs)
        ELSE (IF ComplianceRectanglesOverlap(space1, space2, 0)
              THEN <<Violation("error")>>
              ELSE IF ComplianceRectanglesOverlap(space1, space2, MinVehicleSpacing)
                   THEN <<Violation("warning")>>
                   ELSE <<>>)
             \o CheckPairs(spaces, pairs, k + 1, checked_pairs \cup {pair_key})

\* check_spacing
CheckSpacing(spaces) == CheckPairs(spaces, SpacePairs(spaces), 1, {})

\* The spacing violations in the report of check_layout (line 212).
CheckLayoutSpacing(lay) == CheckSpacing(lay.spaces)

(***************************************************************************)
(* Properties of optimize_layout                                           *)
(***************************************************************************)
KnownTypes == Range(SpaceTypeKeys)

Returned == pc = "done"

Succeeded == Returned /\ result.status \in {"optimal", "feasible"}

\* C2: whenever optimize_layout returns with status optimal or feasible and a
\* vehicle mix was supplied, every type T of the mix with bounds (min, max)
\* has min <= count(T) <= max spaces in the returned layout.
MixBoundsRespected ==
    (Succeeded /\ args.vehicle_mix.some) =>
        \A i \in DOMAIN args.vehicle_mix.val :
            LET item == args.vehicle_mix.val[i]
                n == CountByType(result.layout.spaces, item.type)
            IN  item.min <= n /\ n <= item.max

\* A mix of "exactly one truck" is met by the solver although two truck
\* placements were on offer.
MixBoundsWitness ==
    /\ Succeeded /\ result.status = "optimal"
    /\ args.vehicle_mix = Some(<<Item("truck", 1, 1)>>)
    /\ Len(candidates) >= 2
    /\ Len(result.layout.spaces) = 1

MixIsInvalid(vehicle_mix) ==
    /\ vehicle_mix.some
    /\ \E i \in DOMAIN vehicle_mix.val :
          LET item == vehicle_mix.val[i] IN
          \/ item.type \notin KnownTypes
          \/ item.min < 0 \/ item.max < 0
          \/ item.min > item.max

BoundaryGiven == args.boundary.some /\ Len(args.boundary.val) >= 3

EntryGiven == args.entry_point.some /\ Len(args.entry_point.val) = 2

RejectedAsInvalid ==
    /\ Returned /\ raised = ""
    /\ result.status = "invalid"
    /\ result.layout.spaces = <<>>
    /\ result.solve_time = 0
    /\ stages = <<>> /\ messages = <<>>

\* C3 as stated: a vehicle mix that names an unknown type, has a negative
\* bound or has min > max makes optimize_layout return status "invalid" with
\* zero spaces and solve time 0, before any lane carving, candidate
\* generation, conflict building, solving or progress callback.
InvalidMixAlwaysRejected ==
    (MixIsInvalid(args.vehicle_mix) /\ pc # "call") => RejectedAsInvalid

\* C3 amended: the same, for calls whose boundary has at least 3 points and
\* whose entry point has 2 coordinates.
InvalidMixRejectedOnValidCall ==
    (MixIsInvalid(args.vehicle_mix) /\ BoundaryGiven /\ EntryGiven /\ pc # "call")
        => RejectedAsInvalid

\* An invalid mix is rejected although a progress callback was supplied.
InvalidMixWitness ==
    /\ MixIsInvalid(args.vehicle_mix) /\ args.callback
    /\ RejectedAsInvalid

\* C4: for every layout returned with status optimal or feasible, check_layout
\* reports no violation of category "spacing" with severity error, and no two
\* spaces of the layout have rectangles, or minSpacing-buffered rectangles,
\* that intersect, for every allowed rotation.
ReturnedLayoutPassesSpacing ==
    Succeeded =>
        LET spaces == result.layout.spaces
            found == CheckLayoutSpacing(result.layout)
        IN  /\ \A k \in DOMAIN found :
                  ~(found[k].category = "spacing" /\ found[k].severity = "error")
            /\ \A i, j \in DOMAIN spaces :
                  i < j =>
                     /\ ~GeoRectanglesOverlap(ToRectangle(spaces[i]),
                                              ToRectangle(spaces[j]), 0)
                     /\ ~GeoRectanglesOverlap(ToRectangle(spaces[i]),
                                              ToRectangle(spaces[j]), MinVehicleSpacing)

BadCall ==
    \/ ~args.boundary.some \/ Len(args.boundary.val) < 3
    \/ ~args.entry_point.some \/ Len(args.entry_point.val) # 2

EndedAtTimeLimit == solver.native \in {"FEASIBLE", "UNKNOWN"}

\* C6: in the solver path a run that ends at the time limit without an
\* incumbent is reported as "timeout" with an empty selection and an empty
\* layout, one that ends at the time limit with an incumbent as "feasible"
\* with that incumbent's selection; native OPTIMAL, INFEASIBLE and
\* MODEL_INVALID are reported as "optimal", "infeasible" and "invalid".
SolverStatusReported ==
    (pc \in {"solved", "done"} /\ solver.native # "") =>
        /\ (EndedAtTimeLimit /\ solver.solution_count = 0) =>
              solved = [selected |-> <<>>, status |-> "timeout"]
        /\ (EndedAtTimeLimit /\ solver.solution_count > 0) =>
              solved = [selected |-> solver.incumbent, status |-> "feasible"]
        /\ solver.native = "OPTIMAL" => solved.status = "optimal"
        /\ solver.native = "INFEASIBLE" => solved.status = "infeasible"
        /\ solver.native = "MODEL_INVALID" => solved.status = "invalid"
        /\ Returned =>
              /\ result.status = solved.status
              /\ Len(result.layout.spaces) = Len(solved.selected)

\* The time limit strikes before the first solution although placements exist.
SolverTimeoutWitness ==
    /\ Returned /\ solver.native = "UNKNOWN" /\ solver.solution_count = 0
    /\ candidates # <<>>
    /\ result.status = "timeout" /\ result.layout.spaces = <<>>

BoundaryArea == PolygonArea(Lot(args.boundary.val))

\* C8: when the boundary polygon has area below 50, generate_lanes returns
\* success = false with no lanes, no parking zones and a warning, and
\* optimize_layout returns "infeasible" with zero spaces without generating
\* candidates or invoking the solver.
SmallBoundaryFails ==
    (stages # <<>> /\ BoundaryArea < MinBoundaryArea) =>
        /\ ~lane_result.success
        /\ lane_result.lanes = <<>> /\ lane_result.parking_zones = <<>>
        /\ lane_result.warnings # <<>>
        /\ stages = <<"lanes">>
        /\ pc \in {"lanes_done", "done"}
        /\ Returned => (result.status = "infeasible" /\ result.layout.spaces = <<>>)

SmallBoundaryWitness ==
    /\ Returned /\ args.boundary.val = TinyLot
    /\ ~lane_result.success
    /\ result.status = "infeasible"

\* C9: when the carve with the full lane width leaves no zone of area >= 30,
\* generate_lanes retries once with the nominal width; if that leaves no
\* usable zone either, generate_lanes declares failure (success = false) and
\* optimize_layout returns "infeasible" with an empty layout and warnings.
RetryThenDeclaredFailure ==
    (stages # <<>> /\ BoundaryArea >= MinBoundaryArea /\ lane_result.retried
                   /\ lane_result.parking_zones = <<>>) =>
        /\ ~lane_result.success
        /\ Returned =>
              /\ result.status = "infeasible"
              /\ result.layout.spaces = <<>>
              /\ result.warnings # <<>>

(***************************************************************************)
(* solve_greedy on its own: any candidates, any conflict edges             *)
(***************************************************************************)
GreedyTypes == {"truck", "ev"}

\* Candidate(id, type, x, y, length, width, rotation, revenue)
Candidate(id, type) ==
    [id |-> id, type |-> type, x |-> 0, y |-> 0,
     length |-> SPACE_TYPES[type].default_length,
     width |-> SPACE_TYPES[type].default_width,
     rotation |-> 0, revenue |-> CalculateSpaceRevenue(type)]

CandidateLists ==
    UNION { { [i \in 1 .. n |-> Candidate(i, types[i])] : types \in [1 .. n -> GreedyTypes] }
            : n \in 0 .. MaxCandidates }

\* The edge lists over n candidates: any set of pairs, each list written with
\* the smaller index first throughout or with the larger index first.
ConflictLists(n) ==
    LET Pairs == {p \in (0 .. n - 1) \X (0 .. n - 1) : p[1] < p[2]}
        Rank(p) == p[1] * (n + 1) + p[2]
        Listed(S) == OrderBy(S, Rank)
        Flipped(l) == [k \in DOMAIN l |-> <<l[k][2], l[k][1]>>]
    IN  {Listed(S) : S \in SUBSET Pairs} \cup {Flipped(Listed(S)) : S \in SUBSET Pairs}

GreedyMixes ==
    {None, Some(<<>>), Some(<<Item("ev", 0, 1), Item("truck", 1, 2)>>)}
    \cup {Some(m) : m \in {m \in SingleMixes : m[1].type = "truck" /\ m[1].min <= m[1].max}}

InitGreedy ==
    /\ pc = "greedy"
    /\ args = DefaultCall(WideLot)
    /\ ortools = "missing"
    /\ now = 0 /\ start_time = 0
    /\ \E g \in Goals, m \in GreedyMixes :
          config = [MakeConfig(DefaultCall(WideLot)) EXCEPT !.goal = g, !.vehicle_mix = m]
    /\ lane_result = EmptyLaneResult
    /\ candidates \in CandidateLists
    /\ conflicts \in ConflictLists(Len(candidates))
    /\ greedy = NoGreedy /\ solver = NoSolver /\ solved = NoSolved
    /\ result = NoResult /\ raised = ""
    /\ messages = <<>> /\ stages = <<>>
    /\ JsonIdle

NextGreedy == GreedyStart \/ GreedyVisit \/ GreedyReturn

SpecGreedy == InitGreedy /\ [][NextGreedy]_vars

GreedyReturned == pc = "solved" /\ ortools = "missing"

Conflicting(a, b) ==
    \E k \in DOMAIN conflicts : conflicts[k] = <<a, b>> \/ conflicts[k] = <<b, a>>

\* C1: for any candidate list, any conflict edge list, any goal and any
\* vehicle mix, the selection returned by solve_greedy never contains two
\* candidates that share a conflict edge.
GreedyConflictFree ==
    GreedyReturned =>
        \A a, b \in Range(solved.selected) : a # b => ~Conflicting(a, b)

\* Two candidates are returned while a third was excluded by a conflict.
GreedyConflictWitness ==
    /\ GreedyReturned
    /\ Len(solved.selected) >= 2
    /\ greedy.excluded # {}
    /\ \E a \in Range(solved.selected), b \in Indices(candidates) : Conflicting(a, b)

SelectedOfType(t) ==
    Cardinality({k \in DOMAIN greedy.selected :
                    candidates[greedy.selected[k] + 1].type = t})

BelowMin ==
    /\ config.vehicle_mix.some
    /\ \E k \in DOMAIN config.vehicle_mix.val :
          SelectedOfType(config.vehicle_mix.val[k].type) < config.vehicle_mix.val[k].min

\* C7: solve_greedy returns "infeasible" with an empty selection exactly when,
\* after the greedy pass, some type of the vehicle mix has fewer selected
\* candidates than its min_count; otherwise it returns "feasible"; it returns
\* no other status.
GreedyVerdict ==
    GreedyReturned =>
        /\ solved.status \in {"feasible", "infeasible"}
        /\ solved.status = "infeasible" <=> BelowMin
        /\ solved.status = "infeasible" => solved.selected = <<>>
        /\ solved.status = "feasible" => solved.selected = greedy.selected

\* The pass selected something, yet a minimum is missed and nothing is returned.
GreedyInfeasibleWitness ==
    /\ GreedyReturned
    /\ greedy.selected # <<>>
    /\ BelowMin
    /\ solved = [selected |-> <<>>, status |-> "infeasible"]

(***************************************************************************)
(* models.py: to_dict / from_dict / to_json / from_json                    *)
(*                                                                         *)
(* A document is the nested dict Layout.to_dict builds.  A point inside a  *)
(* document is tagged with its Python type: dataclasses.asdict keeps       *)
(* tuples, json.dumps writes them as arrays and json.loads reads arrays as *)
(* lists.                                                                  *)
(***************************************************************************)
TuplePoint(p) == [kind |-> "tuple", xy |-> p]

\* tuple(p)
AsTuple(p) == p.xy

\* ParkingSpace.to_dict: asdict(self)
SpaceToDict(space) ==
    [id |-> space.id, type |-> space.type, x |-> space.x, y |-> space.y,
     length |-> space.length, width |-> space.width,
     rotation |-> space.rotation, label |-> space.label]

SpaceFromDict_Relabel(data) ==
    ParkingSpace(data.id, data.type, data.x, data.y, data.length, data.width,
                 data.rotation, "")

\* ParkingSpace.from_dict: cls(**data), which runs __post_init__
SpaceFromDict(data) ==
    ParkingSpace(data.id, data.type, data.x, data.y, data.length, data.width,
                 data.rotation, data.label)

\* Lane.to_dict: asdict(self)
LaneToDict(lane) ==
    [id |-> lane.id, type |-> lane.type, width |-> lane.width,
     path |-> [k \in DOMAIN lane.path |-> TuplePoint(lane.path[k])]]

\* Lane.from_dict
LaneFromDict(data) ==
    [id |-> data.id, type |-> data.type, width |-> data.width,
     path |-> [k \in DOMAIN data.path |-> AsTuple(data.path[k])]]

\* Layout.to_dict
LayoutToDict(lay) ==
    [name |-> lay.name, created |-> lay.created, description |-> lay.description,
     lot |-> [width |-> lay.lot_width, length |-> lay.lot_length,
              boundary |-> [k \in DOMAIN lay.boundary |-> TuplePoint(lay.boundary[k])]],
     spaces |-> [k \in DOMAIN lay.spaces |-> SpaceToDict(lay.spaces[k])],
     lanes |-> [k \in DOMAIN lay.lanes |-> LaneToDict(lay.lanes[k])]]

\* Layout.from_dict
LayoutFromDict(data) ==
    Layout(data.name, data.lot.width, data.lot.length,
           [k \in DOMAIN data.spaces |-> SpaceFromDict(data.spaces[k])],
           [k \in DOMAIN data.lanes |-> LaneFromDict(data.lanes[k])],
           [k \in DOMAIN data.lot.boundary |-> AsTuple(data.lot.boundary[k])],
           data.created, data.description)

AsList(p) == [kind |-> "list", xy |-> p.xy]

\* json.loads(json.dumps(doc)): every tuple of the document comes back a list
JsonText(doc) ==
    [doc EXCEPT
        !.lot.boundary = [k \in DOMAIN @ |-> AsList(@[k])],
        !.lanes = [k \in DOMAIN @ |->
                      [@[k] EXCEPT !.path = [n \in DOMAIN @ |-> AsList(@[n])]]]]

GetNextId_Count(lay) == Len(lay.spaces) + 1

\* Layout.get_next_id
GetNextId(lay) ==
    IF lay.spaces = <<>> THEN 1
    ELSE LET ids == {lay.spaces[k].id : k \in DOMAIN lay.spaces}
         IN  (CHOOSE m \in ids : \A i \in ids : i <= m) + 1

\* Layout.remove_space: the first space with the id is deleted
RemoveSpace(lay, space_id) ==
    LET hits == {k \in DOMAIN lay.spaces : lay.spaces[k].id = space_id} IN
    IF hits = {} THEN lay
    ELSE LET i == CHOOSE k \in hits : \A h \in hits : k <= h IN
         [lay EXCEPT !.spaces = SubSeq(@, 1, i - 1) \o SubSeq(@, i + 1, Len(@))]

(***************************************************************************)
(* Layouts built and edited through the constructors, then serialised      *)
(***************************************************************************)
MainLane ==
    [id |-> "main", type |-> "oneway", width |-> LaneConfig("oneway").width,
     path |-> <<EntryOf(WideLot), ExitOf(WideLot)>>]

NewLayouts ==
    { Layout(n.name, DefaultLotWidth, DefaultLotLength, <<>>, lanes, boundary,
             created, n.description) :
        n \in {[name |-> "", description |-> ""],
               [name |-> "Depot", description |-> "north yard"]},
        lanes \in {<<>>, <<MainLane>>},
        boundary \in {<<>>, WideLot},
        created \in {"", "2024-05-01"} }

NewSpaces(id) ==
    { ParkingSpace(id, t, 0, 4 * id, SPACE_TYPES[t].default_length,
                   SPACE_TYPES[t].default_width, r, label) :
        t \in {"truck", "van"}, r \in {0, 90}, label \in {"", "Dock"} }

InitJson ==
    /\ pc = "layout"
    /\ args = DefaultCall(WideLot)
    /\ Idle
    /\ layout \in NewLayouts
    /\ json = NoJson
    /\ layout2 = NoResult.layout
    /\ report = NoReport
    /\ first = NoFirst
    /\ removal = NoRemoval

\* layout.add_space(ParkingSpace(id=layout.get_next_id(), ...))
AddSpace ==
    /\ pc = "layout"
    /\ Len(layout.spaces) < MaxSpaces
    /\ GetNextId(layout) <= MaxSpaces + 1
    /\ \E space \in NewSpaces(GetNextId(layout)) :
          layout' = [layout EXCEPT !.spaces = Append(@, space)]
    /\ UNCHANGED <<removal, first, report, pc, args, ortools, now, start_time, config, lane_result,
                   candidates, conflicts, greedy, solver, solved, result, raised,
                   messages, stages, json, layout2>>

\* layout.remove_space(space_id)
RemoveSpaceStep ==
    /\ pc = "layout"
    /\ \E k \in DOMAIN layout.spaces :
          layout' = RemoveSpace(layout, layout.spaces[k].id)
    /\ UNCHANGED <<removal, first, report, pc, args, ortools, now, start_time, config, lane_result,
                   candidates, conflicts, greedy, solver, solved, result, raised,
                   messages, stages, json, layout2>>

\* layout.to_dict()
ToDict ==
    /\ pc = "layout"
    /\ json' = LayoutToDict(layout)
    /\ pc' = "dict"
    /\ UNCHANGED <<removal, first, report, args, ortools, now, start_time, config, lane_result, candidates,
                   conflicts, greedy, solver, solved, result, raised, messages,
                   stages, layout, layout2>>

\* layout.to_json(), read back by json.loads in from_json
ToJson ==
    /\ pc = "layout"
    /\ json' = JsonText(LayoutToDict(layout))
    /\ pc' = "text"
    /\ UNCHANGED <<removal, first, report, args, ortools, now, start_time, config, lane_result, candidates,
                   conflicts, greedy, solver, solved, result, raised, messages,
                   stages, layout, layout2>>

\* Layout.from_dict(d)
FromDict ==
    /\ pc = "dict"
    /\ layout2' = LayoutFromDict(json)
    /\ pc' = "loaded"
    /\ UNCHANGED <<removal, first, report, args, ortools, now, start_time, config, lane_result, candidates,
                   conflicts, greedy, solver, solved, result, raised, messages,
                   stages, layout, json>>

\* Layout.from_json(s)
FromJson ==
    /\ pc = "text"
    /\ layout2' = LayoutFromDict(json)
    /\ pc' = "loaded"
    /\ UNCHANGED <<removal, first, report, args, ortools, now, start_time, config, lane_result, candidates,
                   conflicts, greedy, solver, solved, result, raised, messages,
                   stages, layout, json>>

NextJson == AddSpace \/ RemoveSpaceStep \/ ToDict \/ ToJson \/ FromDict \/ FromJson

SpecJson == InitJson /\ [][NextJson]_vars

SpaceFields(space) ==
    <<space.id, space.type, space.x, space.y, space.length, space.width,
      space.rotation, space.label>>

\* C10: Layout.from_json(L.to_json()) and Layout.from_dict(L.to_dict()) yield
\* a layout with the same number of spaces, the same (id, type, x, y, length,
\* width, rotation, label) for each space in the same order, the same lanes
\* with the same paths in the same order, and the same name, created,
\* description, lot width, lot length and boundary.
RoundTripPreservesLayout ==
    pc = "loaded" =>
        /\ Len(layout2.spaces) = Len(layout.spaces)
        /\ \A k \in DOMAIN layout.spaces :
              SpaceFields(layout2.spaces[k]) = SpaceFields(layout.spaces[k])
        /\ Len(layout2.lanes) = Len(layout.lanes)
        /\ \A k \in DOMAIN layout.lanes : layout2.lanes[k] = layout.lanes[k]
        /\ layout2.name = layout.name
        /\ layout2.created = layout.created
        /\ layout2.description = layout.description
        /\ layout2.lot_width = layout.lot_width
        /\ layout2.lot_length = layout.lot_length
        /\ layout2.boundary = layout.boundary

\* A layout with a lane and two spaces, one of them with a label of its own,
\* has gone through JSON text and back.
RoundTripWitness ==
    /\ pc = "loaded"
    /\ Len(layout.spaces) >= 2 /\ layout.lanes # <<>>
    /\ \E k \in DOMAIN layout.spaces : layout.spaces[k].label = "Dock"
    /\ json.lot.boundary[1].kind = "list"
    /\ layout2.spaces # <<>>

(***************************************************************************)
(* compliance.py: check_layout                                             *)
(***************************************************************************)
\* SPACE_TYPES.get(space.type, {}) with specs.get("min_length", 0) and
\* specs.get("min_width", 0); the floors are model-scale like the footprints.
MinDimensions(type) ==
    CASE type = "truck"   -> [min_length |-> 30, min_width |-> 2]
      [] type = "ev"      -> [min_length |-> 30, min_width |-> 2]
      [] type = "van"     -> [min_length |-> 15, min_width |-> 30]
      [] type = "tractor" -> [min_length |-> 32, min_width |-> 2]
      [] type = "trailer" -> [min_length |-> 34, min_width |-> 2]
      [] OTHER            -> [min_length |-> 0, min_width |-> 0]

\* Violation(severity, category, message, space_ids, location); the message
\* and the location are not modelled.
Violation(severity, category, space_ids) ==
    [severity |-> severity, category |-> category, space_ids |-> space_ids]

\* check_space_dimensions
CheckSpaceDimensions(space) ==
    LET specs == MinDimensions(space.type) IN
    (IF space.length < specs.min_length
     THEN <<Violation("error", "dimensions", <<space.id>>)>> ELSE <<>>)
    \o (IF space.width < specs.min_width
        THEN <<Violation("error", "dimensions", <<space.id>>)>> ELSE <<>>)

\* check_boundary: the boundary argument is not read
CheckBoundary(space, boundary, lot_width, lot_length) ==
    (IF space.x < 0 \/ space.y < 0
     THEN <<Violation("error", "boundary", <<space.id>>)>> ELSE <<>>)
    \o (IF space.x + space.length > lot_width \/ space.y + space.width > lot_length
        THEN <<Violation("error", "boundary", <<space.id>>)>> ELSE <<>>)

\* check_fire_access, distances doubled
CheckFireAccess(spaces, lot_width, lot_length) ==
    LET Far(space) ==
            LET center_x2 == 2 * space.x + space.length
                center_y2 == 2 * space.y + space.width
                min_dist2 == Min(Min(center_x2, 2 * lot_width - center_x2),
                                 Min(center_y2, 2 * lot_length - center_y2))
            IN  min_dist2 > 2 * FireAccessMaxDistance
        hits == SelectSeq(spaces, Far)
    IN  [k \in DOMAIN hits |-> Violation("warning", "fire", <<hits[k].id>>)]

RECURSIVE PerSpaceChecks(_, _)
PerSpaceChecks(lay, k) ==
    IF k > Len(lay.spaces) THEN <<>>
    ELSE CheckSpaceDimensions(lay.spaces[k])
         \o CheckBoundary(lay.spaces[k], lay.boundary, lay.lot_width, lay.lot_length)
         \o PerSpaceChecks(lay, k + 1)

CountSeverity_All(violations, severity) == Len(violations)

\* "sum(1 for v in all_violations if v.severity == ...)"
CountSeverity(violations, severity) ==
    Cardinality({k \in DOMAIN violations : violations[k].severity = severity})

\* check_layout
CheckLayout(lay) ==
    LET all_violations ==
            PerSpaceChecks(lay, 1)
            \o CheckLayoutSpacing(lay)
            \o CheckFireAccess(lay.spaces, lay.lot_width, lay.lot_length)
        errors == CountSeverity(all_violations, "error")
        warnings == CountSeverity(all_violations, "warning")
    IN  [is_valid |-> errors = 0, violations |-> all_violations,
         warnings |-> warnings, errors |-> errors]

\* ComplianceReport.status
ReportStatus(r) ==
    IF r.errors > 0 THEN "Non-Compliant"
    ELSE IF r.warnings > 0 THEN "Compliant with Warnings"
    ELSE "Fully Compliant"

(***************************************************************************)
(* check_layout on layouts edited by hand                                  *)
(***************************************************************************)
YardSide == 30 * UnitsPerMetre

\* A square yard at the origin, and the same yard shifted away from it.
YardBoundaries ==
    {Rect(YardSide, YardSide),
     << <<10, 10>>, <<YardSide + 10, 10>>, <<YardSide + 10, YardSide + 10>>,
        <<10, YardSide + 10>> >>}

Yards ==
    { Layout("yard", YardSide, YardSide, <<>>, <<>>, b, "2024-05-01", "") :
        b \in YardBoundaries }

YardSpaces(id) ==
    { ParkingSpace(id, t, p[1], p[2], SPACE_TYPES[t].default_length,
                   SPACE_TYPES[t].default_width, r, "") :
        t \in {"truck", "van"},
        p \in {<<0, 0>>, <<0, 3>>, <<13, 29>>, <<30, 12>>},
        r \in {0, 90} }
    \cup {ParkingSpace(id, "truck", 12, 40, 20, 2, 0, ""),
          ParkingSpace(id, "bus", 12, 50, 20, 1, 0, "")}

InitCompliance ==
    /\ pc = "yard"
    /\ args = DefaultCall(WideLot)
    /\ Idle
    /\ layout \in Yards
    /\ json = NoJson
    /\ layout2 = NoResult.layout
    /\ report = NoReport
    /\ first = NoFirst
    /\ removal = NoRemoval

\* A space is drawn on the yard.
PlaceSpace ==
    /\ pc = "yard"
    /\ Len(layout.spaces) < MaxSpaces
    /\ \E space \in YardSpaces(GetNextId(layout)) :
          layout' = [layout EXCEPT !.spaces = Append(@, space)]
    /\ UNCHANGED <<removal, pc, args, ortools, now, start_time, config, lane_result,
                   candidates, conflicts, greedy, solver, solved, result, raised,
                   messages, stages, json, layout2, report, first>>

\* report = check_layout(layout)
CheckLayoutStep ==
    /\ pc = "yard"
    /\ report' = CheckLayout(layout)
    /\ pc' = "checked"
    /\ UNCHANGED <<removal, args, ortools, now, start_time, config, lane_result, candidates,
                   conflicts, greedy, solver, solved, result, raised, messages,
                   stages, layout, json, layout2, first>>

NextCompliance == PlaceSpace \/ CheckLayoutStep

SpecCompliance == InitCompliance /\ [][NextCompliance]_vars

Checked == pc = "checked"

Severities(sev) == {k \in DOMAIN report.violations : report.violations[k].severity = sev}

\* C11: the report of check_layout has errors equal to the number of
\* violations of severity error and warnings equal to the number of severity
\* warning, is_valid holds exactly when errors = 0, and its status is
\* non-compliant if errors > 0, otherwise compliant-with-warnings if
\* warnings > 0, otherwise fully compliant.
ReportCountsAgree ==
    Checked =>
        /\ report.errors = Cardinality(Severities("error"))
        /\ report.warnings = Cardinality(Severities("warning"))
        /\ report.is_valid <=> report.errors = 0
        /\ report.errors > 0 => ReportStatus(report) = "Non-Compliant"
        /\ (report.errors = 0 /\ report.warnings > 0)
              => ReportStatus(report) = "Compliant with Warnings"
        /\ (report.errors = 0 /\ report.warnings = 0)
              => ReportStatus(report) = "Fully Compliant"

\* A report with an error and a warning side by side.
ReportCountsWitness ==
    /\ Checked
    /\ report.errors >= 1 /\ report.warnings >= 1
    /\ ~report.is_valid
    /\ Len(report.violations) = report.errors + report.warnings

(***************************************************************************)
(* Spacing and boundary rules against the rotated footprints               *)
(***************************************************************************)
\* The spacing violations of the given severity that the report holds for the
\* pair of spaces a, b.
SpacingReported(sev, a, b) ==
    \E k \in DOMAIN report.violations :
        /\ report.violations[k].category = "spacing"
        /\ report.violations[k].severity = sev
        /\ report.violations[k].space_ids = <<a.id, b.id>>

\* The rotated footprints of a and b share interior points.
FootprintsCross(a, b) ==
    LET p == ToPolygon(a)
        q == ToPolygon(b)
    IN  /\ p.x1 < q.x2 /\ q.x1 < p.x2
        /\ p.y1 < q.y2 /\ q.y1 < p.y2

\* The rotated footprints of a and b are closer than min_vehicle_spacing.
FootprintsNear(a, b) ==
    LET p == ToPolygon(a)
        q == ToPolygon(b)
        gx == AxisGap(p.x1, p.x2, q.x1, q.x2)
        gy == AxisGap(p.y1, p.y2, q.y1, q.y2)
    IN  gx * gx + gy * gy < (2 * MinVehicleSpacing) * (2 * MinVehicleSpacing)

\* C12: the spacing rule decides every unordered pair of spaces by the
\* intersection of their rotated rectangles: an error is reported exactly
\* when the rotated rectangles intersect (crossing footprints always give an
\* error, and an error is only given to footprints that at least touch), and
\* otherwise a warning exactly when the rectangles buffered by the minimum
\* spacing intersect; the verdict never comes from a box that ignores the
\* rotation.
SpacingDecidedByRotatedRectangles ==
    Checked =>
        \A i, j \in DOMAIN layout.spaces :
            i < j =>
                LET a == layout.spaces[i]
                    b == layout.spaces[j]
                    err == SpacingReported("error", a, b)
                    warn == SpacingReported("warning", a, b)
                IN  /\ FootprintsCross(a, b) => err
                    /\ err => GeoRectanglesOverlap(a, b, 0)
                    /\ warn => (~err /\ GeoRectanglesOverlap(a, b, MinVehicleSpacing))
                    /\ (~GeoRectanglesOverlap(a, b, 0) /\ FootprintsNear(a, b)) => warn

\* The report holds a boundary error for space s.
BoundaryReported(s) ==
    \E k \in DOMAIN report.violations :
        /\ report.violations[k].category = "boundary"
        /\ report.violations[k].severity = "error"
        /\ report.violations[k].space_ids = <<s.id>>

\* The rotated footprint of s lies inside the (rectangular) boundary polygon,
\* its edge included.
CoveredByBoundary(s, boundary) ==
    LET xs == {boundary[k][1] : k \in DOMAIN boundary}
        ys == {boundary[k][2] : k \in DOMAIN boundary}
        p == ToPolygon(s)
    IN  /\ \A x \in xs : \E lo \in xs : lo <= x /\ 2 * lo <= p.x1
        /\ \A x \in xs : \E hi \in xs : hi >= x /\ p.x2 <= 2 * hi
        /\ \A y \in ys : \E lo \in ys : lo <= y /\ 2 * lo <= p.y1
        /\ \A y \in ys : \E hi \in ys : hi >= y /\ p.y2 <= 2 * hi

\* C13: the boundary rule reports an error for a space exactly when the
\* space's rotated rectangle is not fully covered by the layout's boundary
\* polygon, whatever lot_width and lot_length say.
BoundaryDecidedByPolygon ==
    Checked =>
        \A i \in DOMAIN layout.spaces :
            BoundaryReported(layout.spaces[i])
                <=> ~CoveredByBoundary(layout.spaces[i], layout.boundary)

(***************************************************************************)
(* optimize_layout called twice, with and without a progress callback      *)
(***************************************************************************)
TwiceCalls ==
    {DefaultCall(TinyLot), DefaultCall(SlimLot),
     [DefaultCall(WideLot) EXCEPT !.boundary = None],
     [DefaultCall(WideLot) EXCEPT !.entry_point = None],
     [DefaultCall(WideLot) EXCEPT !.vehicle_mix = Some(<<Item("bus", 1, 2)>>)],
     [DefaultCall(WideLot) EXCEPT !.vehicle_mix = Some(<<Item("truck", 0, 2)>>)],
     [DefaultCall(WideLot) EXCEPT !.vehicle_mix =
         Some(<<Item("truck", 0, 2), Item("tractor", 1, 1)>>)],
     [DefaultCall(WideLot) EXCEPT !.vehicle_mix =
         Some(<<Item("truck", 1, 1), Item("ev", 1, 1), Item("van", 1, 1)>>)]}

InitTwice ==
    /\ pc = "call"
    /\ args \in TwiceCalls
    /\ Idle
    /\ JsonIdle

Ended == pc \in {"done", "raised"}

\* The call, made without a callback, has ended; the caller keeps what it did
\* and calls optimize_layout again with the same arguments and a callback.
CallAgain ==
    /\ Ended
    /\ ~first.called
    /\ first' = [called |-> TRUE, raised |-> raised, status |-> result.status,
                 spaces |-> result.layout.spaces, stages |-> stages,
                 ortools |-> ortools, lane_result |-> lane_result,
                 solver |-> solver]
    /\ args' = [args EXCEPT !.callback = TRUE]
    /\ pc' = "call"
    /\ ortools' = "untried"
    /\ now' = 0 /\ start_time' = 0
    /\ config' = MakeConfig(DefaultCall(WideLot))
    /\ lane_result' = EmptyLaneResult
    /\ candidates' = <<>> /\ conflicts' = <<>>
    /\ greedy' = NoGreedy /\ solver' = NoSolver /\ solved' = NoSolved
    /\ result' = NoResult /\ raised' = ""
    /\ messages' = <<>> /\ stages' = <<>>
    /\ UNCHANGED <<removal, layout, json, layout2, report>>

\* The second call meets the surroundings the first one met: the same answer
\* to the ortools import, the same order of the zones, the same incumbents
\* and the same end of the CP-SAT search.  Where the first call ended before
\* it reached one of them, the second is free.
Follows ==
    first.called =>
        /\ first.ortools = "untried" \/ ortools' \in {"untried", first.ortools}
        /\ first.lane_result = EmptyLaneResult
              \/ lane_result' \in {EmptyLaneResult, first.lane_result}
        /\ first.solver = NoSolver
              \/ /\ solver'.solution_count <= first.solver.solution_count
                 /\ solver'.native # "" => solver' = first.solver

NextTwice ==
    \/ RaiseBoundary /\ Follows
    \/ RaiseEntry /\ Follows
    \/ RejectMix /\ Follows
    \/ Configure /\ Follows
    \/ CarveLanes /\ Follows
    \/ ReturnLaneFailure /\ Follows
    \/ GenerateCandidatesStep /\ Follows
    \/ ReturnNoCandidates /\ Follows
    \/ FindConflicts /\ Follows
    \/ ImportFails /\ Follows
    \/ OrtoolsEarlyInfeasible /\ Follows
    \/ OrtoolsSolve /\ Follows
    \/ SolverIncumbent /\ Follows
    \/ SolverOptimal /\ Follows
    \/ SolverInfeasible /\ Follows
    \/ SolverTimeLimit /\ Follows
    \/ SolverModelInvalid /\ Follows
    \/ OrtoolsExtract /\ Follows
    \/ GreedyStart /\ Follows
    \/ GreedyVisit /\ Follows
    \/ GreedyReturn /\ Follows
    \/ BuildResult /\ Follows
    \/ CallAgain

SpecTwice == InitTwice /\ [][NextTwice]_vars

SameSurroundings ==
    /\ first.ortools = ortools \/ "untried" \in {first.ortools, ortools}
    /\ first.lane_result = lane_result \/ EmptyLaneResult \in {first.lane_result, lane_result}
    /\ first.solver = solver \/ NoSolver \in {first.solver, solver}

MessageRank(kind) ==
    CASE kind = "Generating access lanes..."         -> 1
      [] kind = "Generating candidate placements..." -> 2
      [] kind = "Generated candidates"               -> 3
      [] kind = "Found conflicts"                    -> 4
      [] kind = "Found solution"                     -> 5
      [] OTHER                                       -> 0

Delivered(kind) == {k \in DOMAIN messages : messages[k].kind = kind}

Milestones ==
    {"Generating access lanes...", "Generated candidates", "Found conflicts"}

\* The messages of the stages the call has entered, and no others.
OnlyStagesReached ==
    /\ Delivered("Generating access lanes...") # {} => "lanes" \in Range(stages)
    /\ Delivered("Generating candidate placements...") # {}
          => "candidates" \in Range(stages)
    /\ Delivered("Generated candidates") # {} => "conflicts" \in Range(stages)
    /\ Delivered("Found conflicts") # {} => "conflicts" \in Range(stages)
    /\ Delivered("Found solution") # {} => "solve" \in Range(stages)

MessagesOrdered ==
    /\ \A i, j \in DOMAIN messages :
          i < j => /\ MessageRank(messages[i].kind) >= 1
                   /\ MessageRank(messages[i].kind) <= MessageRank(messages[j].kind)
    /\ \A kind \in Milestones : Cardinality(Delivered(kind)) <= 1
    /\ Delivered("Found solution") # {} => Delivered("Found conflicts") # {}
    /\ Delivered("Found conflicts") # {} => Delivered("Generated candidates") # {}
    /\ Delivered("Generated candidates") # {}
          => Delivered("Generating access lanes...") # {}

\* C15: with a callback the messages arrive in pipeline order: the lane-start
\* message before the candidate count, that before the conflict count, that
\* before every improving-incumbent message; each of the three milestones at
\* most once; only messages of stages the call has entered, so a call that
\* stops at lane failure or with no candidates delivers nothing of the later
\* stages; and no message once optimize_layout has returned or raised.
MessagesInPipelineOrder ==
    /\ [](args.callback => (MessagesOrdered /\ OnlyStagesReached))
    /\ [][(pc \in {"done", "raised"}) => messages' = messages]_vars

\* A call with a callback came back after CP-SAT improved its incumbent: every
\* milestone and two incumbent messages were delivered.
MessagesWitness ==
    /\ Returned /\ args.callback
    /\ \A kind \in Milestones : Delivered(kind) # {}
    /\ Cardinality(Delivered("Found solution")) >= 2

\* A call with a callback stopped for want of candidates, after two messages.
MessagesEarlyStopWitness ==
    /\ Returned /\ args.callback
    /\ "conflicts" \notin Range(stages)
    /\ Len(messages) = 2

(***************************************************************************)
(* The time budget of the selection step                                   *)
(***************************************************************************)
\* The selection step has been handed its configuration.
BudgetSet == "conflicts" \in Range(stages)

\* C16: the time budget handed to the solver is time_limit less the time
\* already spent, and 1 where that is below 1: it is never below 1, even when
\* the earlier stages took longer than time_limit or time_limit itself is
\* below 1.
BudgetAtLeastOne ==
    /\ BudgetSet => config.time_limit >= 1
    /\ pc = "solve" =>
          LET left == args.time_limit - (now - start_time)
          IN  config.time_limit = IF left >= 1 THEN left ELSE 1

\* The earlier stages took longer than the whole time_limit.
BudgetWitness ==
    /\ pc = "solve"
    /\ now - start_time > args.time_limit
    /\ config.time_limit = 1

(***************************************************************************)
(* The caller's lists after optimize_layout has returned                   *)
(***************************************************************************)
\* Layout(..., boundary=boundary) at lines 550-551 and 573-579 stores the list
\* object it is given (Layout.__post_init__ replaces it only when it is empty),
\* so on these two returns result.layout.boundary IS the caller's list.  The
\* returns at lines 488-493 and 527-532 pass no boundary and the layout gets a
\* list of its own.
HoldsCallerBoundary == pc = "done" /\ "candidates" \in Range(stages)

InitAfter ==
    /\ pc = "call"
    /\ args \in TwiceCalls
    /\ Idle
    /\ JsonIdle

\* After the return the caller appends a point to the list it passed as
\* boundary; every holder of that list object sees the new point.
CallerAppendsToBoundary ==
    /\ pc = "done"
    /\ args.boundary.some
    /\ Len(args.boundary.val) = 4 /\ Len(result.layout.boundary) = 4
    /\ LET grown == Append(args.boundary.val, args.boundary.val[1]) IN
       /\ args' = [args EXCEPT !.boundary = Some(grown)]
       /\ result' = IF HoldsCallerBoundary
                    THEN [result EXCEPT !.layout.boundary = grown]
                    ELSE result
    /\ UNCHANGED <<removal, pc, ortools, now, start_time, config, lane_result, candidates,
                   conflicts, greedy, solver, solved, raised, messages, stages,
                   layout, json, layout2, report, first>>

\* After the return the caller appends a point to result.layout.boundary.
CallerAppendsToLayoutBoundary ==
    /\ pc = "done"
    /\ args.boundary.some
    /\ Len(args.boundary.val) = 4 /\ Len(result.layout.boundary) = 4
    /\ LET grown == Append(result.layout.boundary, result.layout.boundary[1]) IN
       /\ result' = [result EXCEPT !.layout.boundary = grown]
       /\ args' = IF HoldsCallerBoundary
                  THEN [args EXCEPT !.boundary = Some(grown)]
                  ELSE args
    /\ UNCHANGED <<removal, pc, ortools, now, start_time, config, lane_result, candidates,
                   conflicts, greedy, solver, solved, raised, messages, stages,
                   layout, json, layout2, report, first>>

NextAfter == Next \/ CallerAppendsToBoundary \/ CallerAppendsToLayoutBoundary

SpecAfter == InitAfter /\ [][NextAfter]_vars

\* C17: optimize_layout leaves the caller's boundary, entry and exit points,
\* orientations and vehicle mix as they were, and what it returns shares no
\* list with them: while the call runs the arguments do not change, and after
\* it has returned a change of the caller's boundary list leaves the returned
\* layout's boundary as it was, and a change of the returned layout's boundary
\* leaves the caller's list as it was.
ResultSharesNothing ==
    [][/\ pc # "done" => args' = args
       /\ pc = "done" =>
             /\ args'.boundary # args.boundary
                   => result'.layout.boundary = result.layout.boundary
             /\ result'.layout.boundary # result.layout.boundary
                   => args'.boundary = args.boundary]_vars

(***************************************************************************)
(* solve_greedy against the reference greedy                               *)
(***************************************************************************)
\* Candidate a (0-based) is visited before candidate b under the goal.
VisitedBefore(a, b) ==
    LET ra == candidates[a + 1].revenue
        rb == candidates[b + 1].revenue
        Priority(t) ==
            CASE t = "truck" -> 1 [] t = "ev" -> 2 [] t = "tractor" -> 3
              [] t = "trailer" -> 4 [] t = "van" -> 5 [] OTHER -> 6
        pa == Priority(candidates[a + 1].type)
        pb == Priority(candidates[b + 1].type)
    IN  CASE config.goal = "maximize_revenue" -> ra > rb \/ (ra = rb /\ a < b)
          [] config.goal = "maximize_trucks" ->
                pa < pb \/ (pa = pb /\ ra > rb) \/ (pa = pb /\ ra = rb /\ a < b)
          [] OTHER -> a < b

\* The candidates in the order of the visit.
ReferenceOrder ==
    LET I == 0 .. Len(candidates) - 1 IN
    [k \in 1 .. Len(candidates) |->
        CHOOSE a \in I : Cardinality({b \in I : VisitedBefore(b, a)}) = k - 1]

\* The type of candidate i has a max_count and sel holds that many of it.
TypeFull(i, sel) ==
    /\ config.vehicle_mix.some
    /\ \E k \in DOMAIN config.vehicle_mix.val :
          /\ config.vehicle_mix.val[k].type = candidates[i + 1].type
          /\ Cardinality({p \in DOMAIN sel :
                             candidates[sel[p] + 1].type = candidates[i + 1].type})
                >= config.vehicle_mix.val[k].max

RECURSIVE ReferenceGreedy(_, _, _)
ReferenceGreedy(order, k, sel) ==
    IF k > Len(order) THEN sel
    ELSE LET i == order[k] IN
         IF (\E p \in DOMAIN sel : Conflicting(i, sel[p])) \/ TypeFull(i, sel)
         THEN ReferenceGreedy(order, k + 1, sel)
         ELSE ReferenceGreedy(order, k + 1, Append(sel, i))

\* C18: the selection of solve_greedy is the one of the reference greedy,
\* which visits the candidates in the goal's order with ties in generation
\* order, skips a candidate that conflicts with a selected one or whose type
\* has max_count selected, and selects every other; a candidate skipped for
\* max_count excludes none of its neighbours.
GreedyMatchesReference ==
    GreedyReturned =>
        /\ greedy.sorted_indices = ReferenceOrder
        /\ greedy.selected = ReferenceGreedy(ReferenceOrder, 1, <<>>)
        /\ solved.status = "feasible" => solved.selected = greedy.selected

\* A candidate was passed over because its type was full, and a neighbour of
\* it, visited later, was selected.
GreedyReferenceWitness ==
    /\ GreedyReturned
    /\ \E p, q \in DOMAIN greedy.sorted_indices :
          LET i == greedy.sorted_indices[p]
              j == greedy.sorted_indices[q]
          IN  /\ p < q
              /\ Conflicting(i, j)
              /\ i \notin Range(greedy.selected)
              /\ j \in Range(greedy.selected)
              /\ TypeFull(i, greedy.selected)

(***************************************************************************)
(* find_overlapping_pairs on arbitrary candidate lists                     *)
(***************************************************************************)
\* Truck placements around one at the origin: touching it, half a metre, a
\* metre and more away, corner to corner, diagonal, and rotated across it.
Placements ==
    {<<0, 0, 0>>, <<34, 0, 0>>, <<35, 0, 0>>, <<36, 0, 0>>, <<37, 0, 0>>,
     <<34, 2, 0>>, <<36, 4, 0>>, <<10, 0, 90>>}

PlacedLists ==
    UNION { { [i \in 1 .. n |->
                 [Candidate(i, "truck") EXCEPT !.x = f[i][1], !.y = f[i][2],
                                               !.rotation = f[i][3]]] :
                f \in [1 .. n -> Placements] }
            : n \in 0 .. MaxCandidates }

Spacings == {0, 1, MinVehicleSpacing}

InitPairs ==
    /\ pc = "candidates_done"
    /\ args = DefaultCall(WideLot)
    /\ ortools = "untried"
    /\ now = 0 /\ start_time = 0
    /\ \E sp \in Spacings :
          config = [MakeConfig(DefaultCall(WideLot)) EXCEPT !.min_spacing = sp]
    /\ lane_result = EmptyLaneResult
    /\ candidates \in PlacedLists
    /\ conflicts = <<>>
    /\ greedy = NoGreedy /\ solver = NoSolver /\ solved = NoSolved
    /\ result = NoResult /\ raised = ""
    /\ messages = <<>> /\ stages = <<>>
    /\ JsonIdle

\* conflicts = find_overlapping_pairs(candidates, config.min_spacing)
FindPairs ==
    /\ pc = "candidates_done"
    /\ conflicts' = FindOverlappingPairs(candidates, config.min_spacing)
    /\ pc' = "paired"
    /\ UNCHANGED <<removal, args, ortools, now, start_time, config, lane_result, candidates,
                   greedy, solver, solved, result, raised, messages, stages,
                   layout, json, layout2, report, first>>

NextPairs == FindPairs

SpecPairs == InitPairs /\ [][NextPairs]_vars

Paired == pc = "paired"

\* The rotated rectangles of candidates i and j (0-based), each grown by half
\* the minimum spacing, have a point in common: their distance is at most the
\* minimum spacing.  Coordinates are doubled.
BufferedMeet(i, j) ==
    LET p == ToPolygon(ToRectangle(candidates[i + 1]))
        q == ToPolygon(ToRectangle(candidates[j + 1]))
        dx == IF p.x2 < q.x1 THEN q.x1 - p.x2 ELSE IF q.x2 < p.x1 THEN p.x1 - q.x2 ELSE 0
        dy == IF p.y2 < q.y1 THEN q.y1 - p.y2 ELSE IF q.y2 < p.y1 THEN p.y1 - q.y2 ELSE 0
    IN  dx * dx + dy * dy <= 4 * config.min_spacing * config.min_spacing

\* C19: find_overlapping_pairs returns exactly the pairs (i, j), i < j, whose
\* rectangles grown by half the minimum spacing intersect: each such pair
\* once, no pair with i >= j; rectangles that only touch are a conflict for
\* every minimum spacing from 0 up.
ConflictsAreBufferedMeets ==
    Paired =>
        /\ \A i, j \in 0 .. Len(candidates) - 1 :
              (\E k \in DOMAIN conflicts : conflicts[k] = <<i, j>>)
                 <=> (i < j /\ BufferedMeet(i, j))
        /\ \A k \in DOMAIN conflicts :
              /\ conflicts[k][1] \in 0 .. Len(candidates) - 1
              /\ conflicts[k][2] \in 0 .. Len(candidates) - 1
        /\ \A k, l \in DOMAIN conflicts : k # l => conflicts[k] # conflicts[l]

\* With no minimum spacing, two rectangles that share an edge and no more are
\* reported, next to a pair that is not.
TouchingWitness ==
    /\ Paired
    /\ config.min_spacing = 0
    /\ Len(candidates) = 3
    /\ \E k \in DOMAIN conflicts :
          LET a == candidates[conflicts[k][1] + 1]
              b == candidates[conflicts[k][2] + 1]
          IN  a.rotation = 0 /\ b.rotation = 0 /\ a.y = b.y /\ b.x = a.x + a.length
    /\ Len(conflicts) < 3

(***************************************************************************)
(* generate_candidates on arbitrary zones                                  *)
(***************************************************************************)
Zone(x1, y1, x2, y2) == [x1 |-> x1, y1 |-> y1, x2 |-> x2, y2 |-> y2]

\* A strip in the middle of the large lot and one against its top edge.
ZoneLists ==
    {<<Zone(50, 50, 90, 54)>>, <<Zone(60, 194, 100, 200)>>,
     <<Zone(50, 50, 90, 54), Zone(60, 194, 100, 200)>>}

CandidateLots == {Rect(200, 200), Rect(240, 200)}

\* Lanes close to the strip, further than the fire distance, and out of reach.
LaneAbscissas == {90, 120, 140}

InitCandidates ==
    /\ pc = "lanes_done"
    /\ \E b \in CandidateLots : args = DefaultCall(b)
    /\ ortools = "untried"
    /\ now = 0 /\ start_time = 0
    /\ \E o \in {<<0>>, <<0, 90>>},
          m \in {Some(<<Item("truck", 0, 2)>>),
                 Some(<<Item("ev", 0, 1), Item("truck", 1, 2)>>),
                 Some(<<Item("trailer", 0, 1)>>)} :
          config = [MakeConfig(args) EXCEPT !.orientations = o, !.vehicle_mix = m]
    /\ \E zones \in ZoneLists, lx \in LaneAbscissas :
          lane_result =
             [EmptyLaneResult EXCEPT
                 !.parking_zones = zones,
                 !.lanes = << [id |-> "main", type |-> "oneway",
                               path |-> << <<lx, 0>>, <<lx, LotLength(args)>> >>,
                               width |-> LaneConfig("oneway").width] >>]
    /\ candidates = <<>> /\ conflicts = <<>>
    /\ greedy = NoGreedy /\ solver = NoSolver /\ solved = NoSolved
    /\ result = NoResult /\ raised = ""
    /\ messages = <<>> /\ stages = <<>>
    /\ JsonIdle

NextCandidates == GenerateCandidatesStep

SpecCandidates == InitCandidates /\ [][NextCandidates]_vars

Generated == pc = "candidates_done"

\* Placement v is a grid point of the bounding box of its zone.
InBox(v) ==
    LET z == lane_result.parking_zones[v.zi] IN
    v.x >= z.x1 /\ v.x <= z.x2 /\ v.y >= z.y1 /\ v.y <= z.y2

\* Twice the coordinates of the rotated footprint of placement v.
Footprint(v) ==
    LET l == SPACE_TYPES[v.type].default_length
        w == SPACE_TYPES[v.type].default_width
    IN  IF v.rotation = 90
        THEN [x1 |-> 2 * v.x + l - w, x2 |-> 2 * v.x + l + w,
              y1 |-> 2 * v.y + w - l, y2 |-> 2 * v.y + w + l]
        ELSE [x1 |-> 2 * v.x, x2 |-> 2 * v.x + 2 * l,
              y1 |-> 2 * v.y, y2 |-> 2 * v.y + 2 * w]

\* The footprint lies in the zone, its edge included.
InZone(v) ==
    LET z == lane_result.parking_zones[v.zi]
        f == Footprint(v)
    IN  /\ f.x1 >= 2 * z.x1 /\ f.x2 <= 2 * z.x2
        /\ f.y1 >= 2 * z.y1 /\ f.y2 <= 2 * z.y2

\* The footprint lies in the zone shrunk inward by the 1 cm tolerance: on the
\* half-metre grid, in the zone without touching its edge.
InShrunkZone(v) ==
    LET z == lane_result.parking_zones[v.zi]
        f == Footprint(v)
    IN  /\ f.x1 > 2 * z.x1 /\ f.x2 < 2 * z.x2
        /\ f.y1 > 2 * z.y1 /\ f.y2 < 2 * z.y2

\* Twice the distance from the centre of v to the (vertical) lane centreline,
\* the centre in height between the lane's two ends.
LaneDistance2(v) ==
    LET cx == 2 * v.x + SPACE_TYPES[v.type].default_length
        lx == 2 * lane_result.lanes[1].path[1][1]
    IN  IF cx >= lx THEN cx - lx ELSE lx - cx

\* Twice the distance from the centre of v to the nearest side of the lot.
ExteriorDistance2(v) ==
    LET cx == 2 * v.x + SPACE_TYPES[v.type].default_length
        cy == 2 * v.y + SPACE_TYPES[v.type].default_width
        sides == {cx, cy, 2 * LotWidth(args) - cx, 2 * LotLength(args) - cy}
    IN  CHOOSE d \in sides : \A e \in sides : d <= e

WithinReach(v) ==
    LaneDistance2(v) <= 2 * (TurningRadius + SPACE_TYPES[v.type].default_length)

FireAccess(v) ==
    \/ ExteriorDistance2(v) <= 2 * FireAccessMaxDistance
    \/ LaneDistance2(v) <= 2 * FireAccessMaxDistance

IsCandidate(v) ==
    \E k \in DOMAIN candidates :
        /\ candidates[k].x = v.x /\ candidates[k].y = v.y
        /\ candidates[k].type = v.type /\ candidates[k].rotation = v.rotation

\* C20 (as written): a placement is a candidate if and only if its rectangle
\* is fully contained in its zone, its centre is within turningRadius + length
\* of the lane centreline, and its centre is within the fire-access distance
\* of the boundary exterior or of the lane centreline.
AcceptedIffThreeTests ==
    Generated =>
        \A x \in 50 .. 100, y \in 50 .. 200,
           t \in {config.vehicle_mix.val[k].type : k \in DOMAIN config.vehicle_mix.val},
           r \in Range(config.orientations) :
            LET V == { [zi |-> zi, x |-> x, y |-> y, type |-> t, rotation |-> r] :
                          zi \in DOMAIN lane_result.parking_zones }
            IN  (\E v \in V : IsCandidate(v))
                  <=> (\E v \in V : InBox(v) /\ InZone(v) /\ WithinReach(v) /\ FireAccess(v))

\* C20 (amended): the same with containment in the zone shrunk inward by the
\* 0.01 tolerance, so that a rectangle touching the edge of its zone is not a
\* candidate.
AcceptedIffThreeTestsShrunk ==
    Generated =>
        \A x \in 50 .. 100, y \in 50 .. 200,
           t \in {config.vehicle_mix.val[k].type : k \in DOMAIN config.vehicle_mix.val},
           r \in Range(config.orientations) :
            LET V == { [zi |-> zi, x |-> x, y |-> y, type |-> t, rotation |-> r] :
                          zi \in DOMAIN lane_result.parking_zones }
            IN  (\E v \in V : IsCandidate(v))
                  <=> (\E v \in V : InBox(v) /\ InShrunkZone(v) /\ WithinReach(v)
                                      /\ FireAccess(v))

\* Candidates were found, next to a placement turned down for fire access
\* alone and one turned down only because it touches the edge of its zone.
CandidatesWitness ==
    /\ Generated
    /\ candidates # <<>>
    /\ \E zi \in DOMAIN lane_result.parking_zones, x \in 50 .. 65, y \in {51, 195} :
          LET v == [zi |-> zi, x |-> x, y |-> y, type |-> "truck", rotation |-> 0]
          IN  InBox(v) /\ InShrunkZone(v) /\ WithinReach(v) /\ ~FireAccess(v)
              /\ ~IsCandidate(v)
    /\ \E zi \in DOMAIN lane_result.parking_zones, x \in 50 .. 65, y \in {51, 195} :
          LET v == [zi |-> zi, x |-> x, y |-> y, type |-> "truck", rotation |-> 0]
          IN  InBox(v) /\ InZone(v) /\ ~InShrunkZone(v) /\ WithinReach(v)
              /\ FireAccess(v) /\ ~IsCandidate(v)

(***************************************************************************)
(* The vehicle mix restricts the types of the candidates                   *)
(***************************************************************************)
\* A placement of the lot that passes the three acceptance tests.
Fits(v) == InBox(v) /\ InShrunkZone(v) /\ WithinReach(v) /\ FireAccess(v)

\* The placements of type t on the grid of the zones.
PlacementsOfType(t) ==
    UNION { { [zi |-> zi, x |-> x, y |-> y, type |-> t, rotation |-> r] :
                x \in lane_result.parking_zones[zi].x1 .. lane_result.parking_zones[zi].x2,
                y \in lane_result.parking_zones[zi].y1 .. lane_result.parking_zones[zi].y2,
                r \in Range(config.orientations) }
            : zi \in DOMAIN lane_result.parking_zones }

\* C21: when a non-empty vehicle mix is supplied, every candidate, and hence
\* every space of the returned layout, has a type named in the mix; when no
\* mix is supplied every configured type is tried, so that each placement of
\* each configured type that passes the acceptance tests is a candidate.
CandidateTypesFollowMix ==
    /\ MixGiven(args.vehicle_mix) =>
          /\ \A k \in DOMAIN candidates :
                candidates[k].type \in MixTypes(args.vehicle_mix.val)
          /\ pc = "done" =>
                \A k \in DOMAIN result.layout.spaces :
                    result.layout.spaces[k].type \in MixTypes(args.vehicle_mix.val)
    /\ (Generated /\ ~MixGiven(args.vehicle_mix)) =>
          \A t \in Range(SpaceTypeKeys) :
              \A v \in PlacementsOfType(t) : Fits(v) => IsCandidate(v)

\* Candidates were generated under a mix that leaves out a type of which a
\* placement passes the acceptance tests.
MixExcludesFittingType ==
    /\ Generated
    /\ candidates # <<>>
    /\ MixGiven(args.vehicle_mix)
    /\ \E t \in Range(SpaceTypeKeys) \ MixTypes(args.vehicle_mix.val) :
          \E v \in PlacementsOfType(t) : Fits(v)

(***************************************************************************)
(* A required type without candidates                                      *)
(***************************************************************************)
\* The mix asks for at least one space of a type that no candidate has.
RequiredTypeMissing ==
    /\ MixGiven(args.vehicle_mix)
    /\ \E k \in DOMAIN args.vehicle_mix.val :
          /\ args.vehicle_mix.val[k].min > 0
          /\ \A i \in DOMAIN candidates :
                candidates[i].type # args.vehicle_mix.val[k].type

\* C22: in the constraint-solver path, when the mix requires min_count > 0 of
\* a type that has no candidate, the selection is empty with status
\* "infeasible" at once: the solver is never entered (it counts no solution)
\* and no incumbent is reported to the callback.
MissingTypeEndsAtOnce ==
    (ortools = "available" /\ RequiredTypeMissing) =>
        /\ pc \notin {"search", "extract"}
        /\ solver = NoSolver
        /\ solved = [selected |-> <<>>, status |-> "infeasible"]
        /\ Delivered("Found solution") = {}

\* The solver path was taken with candidates at hand, while the mix requires a
\* type without candidates.
MissingTypeWitness ==
    /\ ortools = "available"
    /\ pc = "solved"
    /\ candidates # <<>>
    /\ RequiredTypeMissing

(***************************************************************************)
(* The spaces of the returned layout are renumbered                        *)
(***************************************************************************)
\* Space k of the returned layout is the k-th selected candidate.
FromSelected(k) ==
    LET space == result.layout.spaces[k]
        c == candidates[solved.selected[k] + 1]
    IN  /\ space.type = c.type /\ space.x = c.x /\ space.y = c.y
        /\ space.length = c.length /\ space.width = c.width
        /\ space.rotation = c.rotation

\* C23: in every returned layout the spaces appear in the order of the
\* solver's selected indices, their ids are 1, 2, ..., k in list order
\* whatever the candidates' generation ids, and each label is the type
\* prefix, '-' and the space's id.
SpacesRenumbered ==
    Returned =>
        /\ Len(result.layout.spaces) = Len(solved.selected)
        /\ \A k \in DOMAIN result.layout.spaces :
              /\ FromSelected(k)
              /\ result.layout.spaces[k].id = k
              /\ result.layout.spaces[k].label
                    = LabelPrefix(result.layout.spaces[k].type) \o "-" \o ToString(k)

\* Two spaces were returned, one of them from a candidate whose generation id
\* differs from the id of the space.
RenumberedWitness ==
    /\ Returned
    /\ Len(result.layout.spaces) >= 2
    /\ \E k \in DOMAIN result.layout.spaces :
          candidates[solved.selected[k] + 1].id # k

(***************************************************************************)
(* Without a constraint solver the call is solve_greedy's                  *)
(***************************************************************************)
\* What solve_greedy returns for the candidates, conflicts and configuration
\* of the call: the reference selection, unless a type of the mix has fewer
\* selected than its min_count.
GreedyOutcome ==
    LET sel == ReferenceGreedy(ReferenceOrder, 1, <<>>)
        Count(t) == Cardinality({p \in DOMAIN sel : candidates[sel[p] + 1].type = t})
    IN  IF /\ MixGiven(config.vehicle_mix)
           /\ \E k \in DOMAIN config.vehicle_mix.val :
                 Count(config.vehicle_mix.val[k].type) < config.vehicle_mix.val[k].min
        THEN [selected |-> <<>>, status |-> "infeasible"]
        ELSE [selected |-> sel, status |-> "feasible"]

\* C24: when no constraint solver is available, solve_with_ortools returns
\* exactly the (selection, status) pair of solve_greedy for the same
\* candidates, conflicts and configuration, and the progress callback hears of
\* no incumbent.
FallbackIsGreedy ==
    (ortools = "missing" /\ pc \in {"solved", "done"}) =>
        /\ solved = GreedyOutcome
        /\ solver = NoSolver
        /\ Delivered("Found solution") = {}

\* The import failed under a listening callback and the greedy selection was
\* returned.
FallbackWitness ==
    /\ ortools = "missing"
    /\ pc = "done"
    /\ args.callback
    /\ messages # <<>>
    /\ solved.status = "feasible"
    /\ solved.selected # <<>>

(***************************************************************************)
(* Parking zones have a usable area                                        *)
(***************************************************************************)
ZoneArea(z) == (z.x2 - z.x1) * (z.y2 - z.y1)

\* The parts left by the carve with the full width of the lane.
FullCarveParts ==
    ParkingParts(Lot(args.boundary.val),
                 LineToLanePolygon(lane_result.lanes[1].path,
                                   TotalWidth(LaneConfig(args.lane_type))),
                 "lr")

\* C25: every parking zone of a result of generate_lanes has area >= 30,
\* whether the zones come from the carve with the full width or from the
\* retry with the nominal width; no fragment of area < 30 is a parking zone.
ZonesAreUsable ==
    \A k \in DOMAIN lane_result.parking_zones :
        ZoneArea(lane_result.parking_zones[k]) >= 30 * UnitsPerM2

\* The carve with the full width left only fragments below 30, which were
\* dropped, and the retry with the nominal width produced the zones.
ZonesFromRetryWitness ==
    /\ pc = "lanes_done"
    /\ lane_result.retried
    /\ lane_result.parking_zones # <<>>
    /\ \E k \in DOMAIN FullCarveParts : ZoneArea(FullCarveParts[k]) < 30 * UnitsPerM2

(***************************************************************************)
(* Status, spaces and statistics of the result agree                       *)
(***************************************************************************)
\* C26: on every return path of optimize_layout a status other than optimal
\* and feasible comes with a layout without spaces; and populated statistics
\* count the spaces of the layout and add up the revenues of the selected
\* candidates.
ResultIsCoherent ==
    Returned =>
        /\ result.status \notin {"optimal", "feasible"} => result.layout.spaces = <<>>
        /\ result.stats.populated =>
              /\ result.stats.selected_spaces = Len(result.layout.spaces)
              /\ result.stats.total_revenue
                    = SumSeq([k \in DOMAIN solved.selected |->
                                 candidates[solved.selected[k] + 1].revenue])

\* The greedy selection held candidates but missed a min_count: the call
\* returned "infeasible" with populated statistics.
DiscardedSelectionWitness ==
    /\ Returned
    /\ result.status = "infeasible"
    /\ result.stats.populated
    /\ greedy.selected # <<>>

\* A selection of two spaces was returned with its statistics.
CoherentStatsWitness ==
    /\ Returned
    /\ result.status \in {"optimal", "feasible"}
    /\ result.stats.populated
    /\ result.stats.selected_spaces >= 2
    /\ result.stats.total_revenue > 0

(***************************************************************************)
(* The greedy selection is maximal                                         *)
(***************************************************************************)
\* Candidate i shares a conflict edge with a selected candidate.
Blocked(i) == \E p \in DOMAIN solved.selected : Conflicting(i, solved.selected[p])

\* The type of candidate i is in the mix and as many of it are selected as
\* its max_count.
TypeAtMax(i) ==
    /\ MixGiven(config.vehicle_mix)
    /\ \E k \in DOMAIN config.vehicle_mix.val :
          /\ config.vehicle_mix.val[k].type = candidates[i + 1].type
          /\ Cardinality({p \in DOMAIN solved.selected :
                             candidates[solved.selected[p] + 1].type
                                = candidates[i + 1].type})
                = config.vehicle_mix.val[k].max

\* C27: when solve_greedy returns "feasible" its selection is maximal: every
\* candidate that is not selected shares a conflict edge with a selected one
\* or is of a type of the mix whose selected count equals its max_count.
GreedyIsMaximal ==
    (GreedyReturned /\ solved.status = "feasible") =>
        \A i \in 0 .. Len(candidates) - 1 :
            i \notin Range(solved.selected) => Blocked(i) \/ TypeAtMax(i)

\* A feasible selection leaves out one candidate for a conflict alone and
\* another for the max_count of its type alone.
GreedyMaximalWitness ==
    /\ GreedyReturned
    /\ solved.status = "feasible"
    /\ solved.selected # <<>>
    /\ \E i, j \in 0 .. Len(candidates) - 1 :
          /\ i \notin Range(solved.selected) /\ Blocked(i) /\ ~TypeAtMax(i)
          /\ j \notin Range(solved.selected) /\ ~Blocked(j) /\ TypeAtMax(j)

(***************************************************************************)
(* lane_generator.py: the centreline on rectangles and notched lots        *)
(***************************************************************************)
\* coords_to_polygon for a rectangle (0,0), (w,0), (w,h), (0,h) and for a lot
\* with a notch cut into its top edge: (0,0), (w,0), (w,h), (n2,h), (n2,nd),
\* (n1,nd), (n1,h), (0,h).  A rectangle has n1 = n2.
Shape(coords) ==
    IF Len(coords) = 4
    THEN [x1 |-> 0, y1 |-> 0, x2 |-> coords[2][1], y2 |-> coords[3][2],
          n1 |-> 0, n2 |-> 0, nd |-> coords[3][2]]
    ELSE [x1 |-> 0, y1 |-> 0, x2 |-> coords[2][1], y2 |-> coords[3][2],
          n1 |-> coords[6][1], n2 |-> coords[5][1], nd |-> coords[5][2]]

HasNotch(s) == s.n1 < s.n2

IsEmpty(s) == s.x2 <= s.x1 \/ s.y2 <= s.y1

ShapeArea(s) == (s.x2 - s.x1) * (s.y2 - s.y1) - (s.n2 - s.n1) * (s.y2 - s.nd)

\* buffer_polygon(polygon, -d) with mitre joins: every edge moves inward by d.
\* The arms and the bar of a notched lot are wider than 2 d in every use, so
\* that the result is one polygon of the same form.
BufferPolygon(s, d) ==
    IF HasNotch(s)
    THEN [x1 |-> s.x1 + d, y1 |-> s.y1 + d, x2 |-> s.x2 - d, y2 |-> s.y2 - d,
          n1 |-> s.n1 - d, n2 |-> s.n2 + d, nd |-> s.nd - d]
    ELSE [x1 |-> s.x1 + d, y1 |-> s.y1 + d, x2 |-> s.x2 - d, y2 |-> s.y2 - d,
          n1 |-> 0, n2 |-> 0, nd |-> s.y2 - d]

\* The point lies in the closed polygon.
InShape(s, p) ==
    /\ s.x1 <= p[1] /\ p[1] <= s.x2 /\ s.y1 <= p[2] /\ p[2] <= s.y2
    /\ ~(s.n1 < p[1] /\ p[1] < s.n2 /\ p[2] > s.nd)

\* polygon.centroid as the pair of numerators over the denominator 2 * area.
CentroidNumerators(s) ==
    LET outer == (s.x2 - s.x1) * (s.y2 - s.y1)
        notch == (s.n2 - s.n1) * (s.y2 - s.nd)
    IN  <<outer * (s.x1 + s.x2) - notch * (s.n1 + s.n2),
          outer * (s.y1 + s.y2) - notch * (s.nd + s.y2)>>

\* polygon_centroid, rounded down to the grid.
PolygonCentroid(s) ==
    <<CentroidNumerators(s)[1] \div (2 * ShapeArea(s)),
      CentroidNumerators(s)[2] \div (2 * ShapeArea(s))>>

\* The segment from p to q, p # q, meets the open notch; every coordinate of
\* p and q is given multiplied by k.
NotchCrossed(s, k, p, q) ==
    LET bx1 == k * s.n1
        bx2 == k * s.n2
        by1 == k * s.nd
        by2 == k * (s.y2 + 1)
        Side(cx, cy) == (q[1] - p[1]) * (cy - p[2]) - (q[2] - p[2]) * (cx - p[1])
        sides == {Side(bx1, by1), Side(bx2, by1), Side(bx1, by2), Side(bx2, by2)}
    IN  /\ HasNotch(s)
        /\ Max(p[1], q[1]) > bx1 /\ Min(p[1], q[1]) < bx2
        /\ Max(p[2], q[2]) > by1 /\ Min(p[2], q[2]) < by2
        /\ \E a \in sides : a > 0
        /\ \E a \in sides : a < 0

\* The segment from p to q runs along one edge of the polygon.
OnOneEdge(s, p, q) ==
    \/ p[1] = q[1] /\ p[1] \in {s.x1, s.x2}
    \/ p[2] = q[2] /\ p[2] = s.y1
    \/ p[2] = q[2] /\ p[2] = s.y2 /\ ~NotchCrossed(s, 1, p, q)
    \/ /\ HasNotch(s)
       /\ \/ p[1] = q[1] /\ p[1] \in {s.n1, s.n2} /\ Min(p[2], q[2]) >= s.nd
          \/ /\ p[2] = q[2] /\ p[2] = s.nd
             /\ Min(p[1], q[1]) >= s.n1 /\ Max(p[1], q[1]) <= s.n2

\* polygon.contains(LineString([p, q])) for grid points p # q: the segment
\* lies in the closed polygon and not wholly in its boundary.
SegmentInside(s, p, q) ==
    /\ InShape(s, p) /\ InShape(s, q)
    /\ ~NotchCrossed(s, 1, p, q)
    /\ ~OnOneEdge(s, p, q)

\* polygon.contains(LineString([p, centroid])) for a grid point p.  The
\* centroid of the lots at hand is not on their boundary.
CentroidSegmentInside(s, p) ==
    LET c == CentroidNumerators(s)
        k == 2 * ShapeArea(s)
    IN  /\ InShape(s, p)
        /\ ~(HasNotch(s) /\ k * s.n1 < c[1] /\ c[1] < k * s.n2 /\ c[2] > k * s.nd)
        /\ ~NotchCrossed(s, k, <<k * p[1], k * p[2]>>, c)

Dist2(p, q) == (p[1] - q[1]) * (p[1] - q[1]) + (p[2] - q[2]) * (p[2] - q[2])

\* lines 153-159 of generate_lane_path for an axis-parallel segment of the
\* grid: direct.buffer(0.1) without the two discs of radius r around its ends
\* is empty or lies in the boundary.  What is left of the buffer is the band
\* of half-width 0.1 around the part of the segment further than r from both
\* ends; it is empty when the segment is shorter than 2 r.
BandInside(s, p, q, r) ==
    \/ Dist2(p, q) < 4 * r * r
    \/ /\ p[1] = q[1]
       /\ s.x1 < p[1] /\ p[1] < s.x2
       /\ InShape(s, p) /\ InShape(s, q)
       /\ ~(HasNotch(s) /\ s.n1 <= p[1] /\ p[1] <= s.n2
            /\ Max(p[2], q[2]) - s.nd >= r)
    \/ /\ p[2] = q[2]
       /\ s.y1 < p[2] /\ p[2] < s.y2
       /\ InShape(s, p) /\ InShape(s, q)
       /\ ~(HasNotch(s) /\ p[2] >= s.nd
            /\ Max(p[1], q[1]) - s.n1 >= r /\ s.n2 - Min(p[1], q[1]) >= r)

\* polygon.exterior
Vertices(s) ==
    IF HasNotch(s)
    THEN << <<s.x1, s.y1>>, <<s.x2, s.y1>>, <<s.x2, s.y2>>, <<s.n2, s.y2>>,
            <<s.n2, s.nd>>, <<s.n1, s.nd>>, <<s.n1, s.y2>>, <<s.x1, s.y2>> >>
    ELSE << <<s.x1, s.y1>>, <<s.x2, s.y1>>, <<s.x2, s.y2>>, <<s.x1, s.y2>> >>

Clamp(v, lo, hi) == Max(lo, Min(v, hi))

\* boundary.interpolate(boundary.project(Point(p))): the point of the exterior
\* nearest to p.  Between equally near points the library takes the first
\* along the ring, whose start is not fixed by the code: every one is possible.
NearestOnExterior(s, p) ==
    LET v == Vertices(s)
        OnEdge(k) ==
            LET a == v[k]
                b == v[(k % Len(v)) + 1]
            IN  <<Clamp(p[1], Min(a[1], b[1]), Max(a[1], b[1])),
                  Clamp(p[2], Min(a[2], b[2]), Max(a[2], b[2]))>>
        pts == {OnEdge(k) : k \in DOMAIN v}
    IN  {n \in pts : \A m \in pts : Dist2(p, n) <= Dist2(p, m)}

\* The polygon shrunk by 2 m, or the polygon itself when nothing usable is left.
ShrunkOrSelf(s) ==
    LET shrunk == BufferPolygon(s, 2 * UnitsPerMetre)
    IN  IF IsEmpty(shrunk) \/ ShapeArea(shrunk) < 10 * UnitsPerM2 THEN s ELSE shrunk

MedialAxisPath_Waypoints(s, start, end) ==
    IF SegmentInside(s, start, end) THEN {<<start, end>>}
    ELSE IF CentroidSegmentInside(s, start) /\ CentroidSegmentInside(s, end)
    THEN {<<start, PolygonCentroid(s), end>>}
    ELSE {<<start, a, b, end>> :
             a \in NearestOnExterior(ShrunkOrSelf(s), start),
             b \in NearestOnExterior(ShrunkOrSelf(s), end)}

\* compute_medial_axis_path: the paths it can return.  The middle point of the
\* last branch is rounded down to the grid.
MedialAxisPath(s, start, end) ==
    IF SegmentInside(s, start, end) THEN {<<start, end>>}
    ELSE IF CentroidSegmentInside(s, start) /\ CentroidSegmentInside(s, end)
    THEN {<<start, PolygonCentroid(s), end>>}
    ELSE {<<start, <<(a[1] + b[1]) \div 2, (a[2] + b[2]) \div 2>>, end>> :
             a \in NearestOnExterior(ShrunkOrSelf(s), start),
             b \in NearestOnExterior(ShrunkOrSelf(s), end)}

\* The distance from point c to the segment from p to q is at least r.
FarFromSegment(c, p, q, r) ==
    LET len2 == Dist2(p, q)
        dot == (c[1] - p[1]) * (q[1] - p[1]) + (c[2] - p[2]) * (q[2] - p[2])
        cross == (q[1] - p[1]) * (c[2] - p[2]) - (q[2] - p[2]) * (c[1] - p[1])
    IN  IF dot <= 0 THEN Dist2(c, p) >= r * r
        ELSE IF dot >= len2 THEN Dist2(c, q) >= r * r
        ELSE cross * cross >= r * r * len2

\* The distance from point c to the closed notch is at least r.
FarFromNotch(s, c, r) ==
    LET nx == Clamp(c[1], s.n1, s.n2)
        ny == Max(c[2], s.nd)
    IN  Dist2(c, <<nx, ny>>) >= r * r

\* boundary.contains(LineString([p, q]).buffer(r)): the segment keeps the
\* distance r from the outside of the polygon.
BufferedSegmentInside(s, p, q, r) ==
    /\ Min(p[1], q[1]) - r >= s.x1 /\ Max(p[1], q[1]) + r <= s.x2
    /\ Min(p[2], q[2]) - r >= s.y1 /\ Max(p[2], q[2]) + r <= s.y2
    /\ HasNotch(s) =>
          /\ ~NotchCrossed(s, 1, p, q)
          /\ FarFromNotch(s, p, r) /\ FarFromNotch(s, q, r)
          /\ FarFromSegment(<<s.n1, s.nd>>, p, q, r)
          /\ FarFromSegment(<<s.n2, s.nd>>, p, q, r)

\* The inner loop of smooth_path: the furthest point reachable from point i.
Furthest(path, i, s, r) ==
    LET J == {j \in i + 2 .. Len(path) : BufferedSegmentInside(s, path[i], path[j], r)}
    IN  IF J = {} THEN i + 1 ELSE CHOOSE j \in J : \A m \in J : m <= j

RECURSIVE SmoothFrom(_, _, _, _)
SmoothFrom(path, i, s, r) ==
    IF i >= Len(path) THEN <<>>
    ELSE <<path[Furthest(path, i, s, r)]>>
            \o SmoothFrom(path, Furthest(path, i, s, r), s, r)

\* smooth_path
SmoothPath(path, s, min_distance) ==
    IF Len(path) <= 2 THEN path
    ELSE <<path[1]>> \o SmoothFrom(path, 1, s, min_distance)

\* generate_lane_path on a polygon: the centrelines it can return, each with
\* the steps that produced it.
GenerateLanePathIn(s, entry, exit_pt, cfg) ==
    LET half == TotalWidth(cfg) \div 2
        inset == BufferPolygon(s, half + UnitsPerMetre \div 2)
        direct == [path |-> <<entry, exit_pt>>, steps |-> <<"direct">>]
    IN  IF IsEmpty(inset) \/ ShapeArea(inset) < 10 * UnitsPerM2 THEN {direct}
        ELSE IF /\ Dist2(entry, exit_pt) > UnitsPerMetre * UnitsPerMetre
                /\ BandInside(s, entry, exit_pt, half)
        THEN {direct}
        ELSE { IF Len(path) > 3
               THEN [path |-> SmoothPath(path, s, half), steps |-> <<"medial", "smooth">>]
               ELSE [path |-> path, steps |-> <<"medial">>]
               : path \in MedialAxisPath(s, entry, exit_pt) }

(***************************************************************************)
(* generate_lane_path applied to entries and exits of three lots           *)
(***************************************************************************)
\* A lot of 60 m x 40 m with a notch of 30 m x 25 m cut into its top edge.
NotchedLot ==
    << <<0, 0>>, <<120, 0>>, <<120, 80>>, <<90, 80>>,
       <<90, 30>>, <<30, 30>>, <<30, 80>>, <<0, 80>> >>

\* Points on the boundary of each lot, and two just inside the wide lot.
PathPoints(b) ==
    IF b = NotchedLot
    THEN {<<15, 0>>, <<60, 0>>, <<105, 0>>, <<15, 80>>, <<105, 80>>,
          <<0, 50>>, <<120, 50>>, <<0, 10>>, <<120, 10>>, <<60, 30>>}
    ELSE IF b = WideLot
    THEN {<<0, 0>>, <<10, 0>>, <<11, 0>>, <<21, 0>>, <<26, 0>>, <<50, 0>>,
          <<0, 36>>, <<10, 36>>, <<26, 36>>, <<0, 18>>, <<52, 18>>,
          <<26, 1>>, <<26, 3>>}
    ELSE {<<8, 0>>, <<8, 60>>, <<2, 0>>, <<14, 0>>}

\* The entry and the exit differ and share an abscissa or an ordinate.
PathEnds(b) ==
    {ends \in PathPoints(b) \X PathPoints(b) :
        /\ ends[1] # ends[2]
        /\ ends[1][1] = ends[2][1] \/ ends[1][2] = ends[2][2]}

PathCalls ==
    UNION { { [DefaultCall(b) EXCEPT !.entry_point = Some(ends[1]),
                                     !.exit_point = Some(ends[2]),
                                     !.lane_type = lt] :
                ends \in PathEnds(b), lt \in {"oneway", "twoway"} }
            : b \in {SlimLot, WideLot, NotchedLot} }

InitPath ==
    /\ pc = "path"
    /\ args \in PathCalls
    /\ Idle
    /\ result = NoResult /\ raised = ""
    /\ messages = <<>> /\ stages = <<>>
    /\ JsonIdle

\* lines 247-268 of generate_lanes: the centreline and the Lane that holds it
GenerateLanePathStep ==
    /\ pc = "path"
    /\ \E r \in GenerateLanePathIn(Shape(args.boundary.val), args.entry_point.val,
                                   args.exit_point.val, LaneConfig(args.lane_type)) :
          /\ lane_result' =
                [EmptyLaneResult EXCEPT
                    !.lanes = << [id |-> "main", type |-> args.lane_type,
                                  width |-> LaneConfig(args.lane_type).width,
                                  path |-> r.path] >>]
          /\ stages' = r.steps
    /\ pc' = "path_done"
    /\ UNCHANGED <<removal, first, report, args, ortools, now, start_time, config, candidates,
                   conflicts, greedy, solver, solved, result, raised, messages,
                   layout, json, layout2>>

NextPath == GenerateLanePathStep

SpecPath == InitPath /\ [][NextPath]_vars

PathReturned == pc = "path_done"

\* C28: the centreline returned by generate_lane_path has 2 or 3 points, the
\* first the entry and the last the exit; so the smoothing of paths of more
\* than 3 points never runs, and the path of every Lane has at least 2 points.
CentrelineHasTwoOrThreePoints ==
    PathReturned =>
        /\ \A k \in DOMAIN lane_result.lanes :
              LET path == lane_result.lanes[k].path IN
              /\ Len(path) \in {2, 3}
              /\ path[1] = args.entry_point.val
              /\ path[Len(path)] = args.exit_point.val
        /\ "smooth" \notin Range(stages)

\* On the notched lot the direct segment leaves the lot and the centroid lies
\* in the notch: the centreline passes through the point between the
\* projections of the entry and the exit, and it is not smoothed.
CentrelineThroughMiddleWitness ==
    /\ PathReturned
    /\ args.boundary.val = NotchedLot
    /\ stages = <<"medial">>
    /\ Len(lane_result.lanes[1].path) = 3
    /\ lane_result.lanes[1].path[2] # PolygonCentroid(Shape(NotchedLot))

\* On the wide lot an entry and an exit on the same edge are joined through
\* the centroid.
CentrelineThroughCentroidWitness ==
    /\ PathReturned
    /\ args.boundary.val = WideLot
    /\ stages = <<"medial">>
    /\ lane_result.lanes[1].path
          = <<args.entry_point.val, PolygonCentroid(Shape(WideLot)), args.exit_point.val>>

\* Two points less than a metre apart inside the lot: the centreline found
\* past the direct test is the segment itself.
CentrelineShortWitness ==
    /\ PathReturned
    /\ stages = <<"medial">>
    /\ Len(lane_result.lanes[1].path) = 2

(***************************************************************************)
(* A layout edited with get_next_id, add_space and remove_space            *)
(***************************************************************************)
\* What Layout.remove_space returns: whether a space has the id.
RemoveSpaceReturns(lay, space_id) ==
    \E k \in DOMAIN lay.spaces : lay.spaces[k].id = space_id

\* Layouts whose spaces have distinct ids, not all of them numbered from 1.
EditLayouts ==
    LET Space(id) == ParkingSpace(id, "truck", 0, 4 * id,
                                  SPACE_TYPES["truck"].default_length,
                                  SPACE_TYPES["truck"].default_width, 0, "")
    IN  { Layout("Depot", DefaultLotWidth, DefaultLotLength, spaces, <<>>, WideLot,
                 "2024-05-01", "") :
            spaces \in {<<>>, <<Space(2)>>, <<Space(3), Space(1)>>} }

InitEdit ==
    /\ pc = "layout"
    /\ args = DefaultCall(WideLot)
    /\ Idle
    /\ result = NoResult /\ raised = ""
    /\ messages = <<>> /\ stages = <<>>
    /\ layout \in EditLayouts
    /\ json = NoJson
    /\ layout2 = NoResult.layout
    /\ report = NoReport
    /\ first = NoFirst
    /\ removal = NoRemoval

\* layout.remove_space(space_id), for an id of the layout or any other
RemoveSpaceCall ==
    /\ pc = "layout"
    /\ \E space_id \in 1 .. MaxSpaces + 2 :
          /\ layout' = RemoveSpace(layout, space_id)
          /\ removal' = [called |-> TRUE, space_id |-> space_id,
                         returned |-> RemoveSpaceReturns(layout, space_id)]
    /\ UNCHANGED <<first, report, pc, args, ortools, now, start_time, config, lane_result,
                   candidates, conflicts, greedy, solver, solved, result, raised,
                   messages, stages, json, layout2>>

NextEdit == AddSpace \/ RemoveSpaceCall

SpecEdit == InitEdit /\ [][NextEdit]_vars

Ids(spaces) == {spaces[k].id : k \in DOMAIN spaces}

DistinctIds ==
    \A i, j \in DOMAIN layout.spaces :
        i # j => layout.spaces[i].id # layout.spaces[j].id

\* The spaces without the one at position i, in their order.
Without(spaces, i) == [k \in 1 .. Len(spaces) - 1 |-> IF k < i THEN spaces[k] ELSE spaces[k + 1]]

\* What one step does to the list of spaces: a shorter list comes from a
\* remove_space that returned True and took out the one space with the id; a
\* remove_space that returned False had an id of no space and left the list
\* as it was; one that returned True left one space less.
RemovalEffect ==
    /\ Len(layout'.spaces) < Len(layout.spaces) =>
          /\ removal'.called /\ removal'.returned
          /\ removal'.space_id \notin Ids(layout'.spaces)
          /\ \E i \in DOMAIN layout.spaces :
                /\ layout.spaces[i].id = removal'.space_id
                /\ layout'.spaces = Without(layout.spaces, i)
    /\ (removal' # removal /\ ~removal'.returned) =>
          /\ removal'.space_id \notin Ids(layout.spaces)
          /\ layout' = layout
    /\ (removal' # removal /\ removal'.returned) =>
          Len(layout'.spaces) = Len(layout.spaces) - 1

RemoveAbsentWitness ==
    /\ removal.called /\ ~removal.returned
    /\ layout.spaces # <<>>

(***************************************************************************)
(* check_layout on layouts loaded from a file edited by hand               *)
(***************************************************************************)
\* Trucks stacked along the left side of the yard: overlapping, closer than
\* the minimum spacing, and far apart; ids as found in the file.
LoadedSpaces ==
    { ParkingSpace(id, "truck", 0, y, SPACE_TYPES["truck"].default_length,
                   SPACE_TYPES["truck"].default_width, 0, "") :
        id \in {1, 2}, y \in {0, 1, 3, 10} }

LoadedLayouts ==
    UNION { { Layout("yard", YardSide, YardSide, spaces, <<>>, Rect(YardSide, YardSide),
                     "2024-05-01", "") :
                spaces \in [1 .. n -> LoadedSpaces] }
            : n \in 0 .. MaxSpaces + 1 }

InitLoaded ==
    /\ pc = "yard"
    /\ args = DefaultCall(WideLot)
    /\ Idle
    /\ result = NoResult /\ raised = ""
    /\ messages = <<>> /\ stages = <<>>
    /\ layout \in LoadedLayouts
    /\ json = NoJson
    /\ layout2 = NoResult.layout
    /\ report = NoReport
    /\ first = NoFirst
    /\ removal = NoRemoval

NextLoaded == CheckLayoutStep

SpecLoaded == InitLoaded /\ [][NextLoaded]_vars

\* The unordered pairs of positions of the list of spaces.
UnorderedPairs ==
    {p \in (DOMAIN layout.spaces) \X (DOMAIN layout.spaces) : p[1] < p[2]}

\* The stored boxes of the two spaces overlap.
PairOverlaps(p) ==
    ComplianceRectanglesOverlap(layout.spaces[p[1]], layout.spaces[p[2]], 0)

\* The stored boxes are apart, by less than the minimum spacing.
PairTooClose(p) ==
    /\ ~PairOverlaps(p)
    /\ ComplianceRectanglesOverlap(layout.spaces[p[1]], layout.spaces[p[2]],
                                   MinVehicleSpacing)

SpacingViolations(sev) ==
    {k \in DOMAIN report.violations :
        /\ report.violations[k].category = "spacing"
        /\ report.violations[k].severity = sev}

\* C30: check_spacing examines every one of the n(n-1)/2 unordered pairs of
\* spaces and emits at most one spacing violation per pair, also when two
\* spaces carry the same id: there is one error for each overlapping pair,
\* one warning for each pair that is too close, and nothing else.
EveryPairExamined ==
    Checked =>
        /\ Cardinality(SpacingViolations("error"))
              = Cardinality({p \in UnorderedPairs : PairOverlaps(p)})
        /\ Cardinality(SpacingViolations("warning"))
              = Cardinality({p \in UnorderedPairs : PairTooClose(p)})

\* With distinct ids the count holds: three spaces, an overlap and a pair too
\* close, were checked.
EveryPairExaminedOnDistinctIds ==
    (Checked /\ \A p \in UnorderedPairs :
                    layout.spaces[p[1]].id # layout.spaces[p[2]].id) =>
        /\ Cardinality(SpacingViolations("error"))
              = Cardinality({p \in UnorderedPairs : PairOverlaps(p)})
        /\ Cardinality(SpacingViolations("warning"))
              = Cardinality({p \in UnorderedPairs : PairTooClose(p)})

====
